---------------------------- MODULE Spec2Model ----------------------------
(***************************************************************************)
(* A model of the geometry engine of the 3D printing cost estimator:       *)
(*   - OrientationAnalyzer            (src/lib/orientation-analyzer.ts)    *)
(*   - tryToFitModelOnBuildPlate      (src/components/print-calculator.tsx)*)
(*   - calculateVolume                (src/lib/calculations.ts)            *)
(*                                                                         *)
(* Numbers.  JavaScript numbers are IEEE-754 doubles.  Two number models   *)
(* are used, each where it decides what the code does:                     *)
(*   * the analyzer works on exact rationals extended with NaN and         *)
(*     +/-Infinity (a record [n, d] with d = 0 for the three special       *)
(*     values); the input meshes are chosen so that every square root the  *)
(*     code takes is rational, and so that no compared value sits on a     *)
(*     threshold;                                                          *)
(*   * the build-plate fit checker adds and subtracts products with the    *)
(*     literal 0.01 and then compares them with >= and <=, and the volume  *)
(*     integrator divides by 6.0 and accumulates, so there the doubles are *)
(*     modelled bit for bit (53-bit significands, round to nearest, ties   *)
(*     to even).                                                           *)
(***************************************************************************)
EXTENDS Integers, Sequences, FiniteSets, TLC

VARIABLES
    geometry,      \* OrientationAnalyzer.geometry: [tris, boundingBox]
    loaded,        \* the positions and normals the analyzer was constructed with
    features,      \* the FeatureDetectionResult object as the last call left it
    results,       \* what the last analyzeOrientation call returned
    prevResults,   \* what the call before it returned
    calls,         \* number of analyzeOrientation calls made so far
    thrown,        \* the error the last call threw, "none" when it returned
    fitBox,        \* the bounding box handed to tryToFitModelOnBuildPlate
    fitResult,     \* what tryToFitModelOnBuildPlate returned for it
    fitDone,       \* whether tryToFitModelOnBuildPlate has returned
    shape,         \* what the STL file describes: [kind, edge]
    stlFile,       \* the facets of an STL file handed to calculateVolume
    movedFile,     \* the facets of the same mesh after a rigid motion
    volume,        \* what calculateVolume resolved with, for each of the two
    computed,      \* the files calculateVolume has resolved for
    upload,        \* an uploaded model file: [format, meshes]
    promise,       \* the promises calculateVolume returned for the upload and
                   \* for the same upload with every triangle's winding reversed
    modelFile,     \* store: the upload whose bytes it holds, 0 for null
    fileName,      \* store: the upload whose name it holds, 0 for ""
    published,     \* the store states handed to the store's listeners
    uploaded,      \* the files uploaded so far, in order
    estimate,      \* volume, weight, printTime and cost of PrintCalculator: the
                   \* upload they were computed from, 0 for null
    isCalculating, \* PrintCalculator.isCalculating
    viewerKey,     \* PrintCalculator.viewerKey
    modelDimensions, \* PrintCalculator.modelDimensions
    inflight,      \* the handleCalculate calls awaiting calculateVolume
    viewers,       \* the ModelViewer instances created so far, the last of
                   \* them mounted and the others unmounted
    scenes         \* the same instances with the geometry they hold, when
                   \* the files are given by their triangles

analyzerVars == <<geometry, loaded, features, results, prevResults, calls, thrown>>

fitVars == <<fitBox, fitResult, fitDone>>

volumeVars == <<shape, stlFile, movedFile, volume, computed>>

uploadVars == <<upload, promise>>

sessionVars ==
    <<modelFile, fileName, published, uploaded, estimate, isCalculating,
      viewerKey, modelDimensions, inflight, viewers, scenes>>

vars == <<analyzerVars, fitVars, volumeVars, uploadVars, sessionVars>>

---------------------------------------------------------------------------
(* Exact numbers with the IEEE special values.                             *)
(* [n |-> p, d |-> q] with q > 0 is the rational p/q in lowest terms;      *)
(* [n |-> 0, d |-> 0] is NaN, [n |-> 1, d |-> 0] is +Infinity and          *)
(* [n |-> -1, d |-> 0] is -Infinity.                                       *)

\* TLC evaluates the expression behind an operator parameter or a LET name
\* each time the name is used, but a value drawn from a set only once.
\* Bind(v, F) is F(v) with v evaluated first; Bind2 and Bind3 likewise.
Bind(v, F(_)) == CHOOSE r \in {F(x) : x \in {v}} : TRUE

Bind2(u, v, F(_, _)) == CHOOSE r \in {F(x, y) : x \in {u}, y \in {v}} : TRUE

Bind3(u, v, w, F(_, _, _)) ==
    CHOOSE r \in {F(x, y, z) : x \in {u}, y \in {v}, z \in {w}} : TRUE

Abs(x) == Bind(x, LAMBDA v : IF v < 0 THEN -v ELSE v)

Sign(x) == Bind(x, LAMBDA v : IF v < 0 THEN -1 ELSE IF v > 0 THEN 1 ELSE 0)

RECURSIVE GCD(_, _)
GCD(a, b) == Bind2(a, b, LAMBDA x, y : IF y = 0 THEN x ELSE GCD(y, x % y))

Norm(p, q) ==
    Bind2(p, q, LAMBDA x, y :
        IF y = 0 THEN [n |-> Sign(x), d |-> 0]
        ELSE Bind(GCD(Abs(x), Abs(y)), LAMBDA g :
                 [n |-> (Sign(y) * x) \div g, d |-> Abs(y) \div g]))

Q(p, q) == Norm(p, q)

I(p) == [n |-> p, d |-> 1]

NaN == [n |-> 0, d |-> 0]

PosInf == [n |-> 1, d |-> 0]

NegInf == [n |-> -1, d |-> 0]

IsNaN(a) == Bind(a, LAMBDA x : x.n = 0 /\ x.d = 0)

IsFinite(a) == a.d > 0

RAdd(a, b) ==
    Bind2(a, b, LAMBDA x, y :
        IF x.d = 0 /\ y.d = 0
        THEN (IF x.n = y.n THEN x ELSE NaN)
        ELSE Norm(x.n * y.d + y.n * x.d, x.d * y.d))

RNeg(a) == Bind(a, LAMBDA x : [n |-> -x.n, d |-> x.d])

RSub(a, b) == RAdd(a, RNeg(b))

RMul(a, b) == Bind2(a, b, LAMBDA x, y : Norm(x.n * y.n, x.d * y.d))

RRecip(a) ==
    Bind(a, LAMBDA x :
        IF x.n = 0 /\ x.d > 0 THEN PosInf
        ELSE Norm(Sign(x.n) * x.d, Abs(x.n)))

RDiv(a, b) == RMul(a, RRecip(b))

\* a < b, false when either is NaN
RLt(a, b) ==
    Bind2(a, b, LAMBDA x, y :
        /\ ~IsNaN(x)
        /\ ~IsNaN(y)
        /\ IF x.d = 0 /\ y.d = 0 THEN x.n < y.n
           ELSE x.n * y.d < y.n * x.d)

RGt(a, b) == RLt(b, a)

RLe(a, b) == Bind2(a, b, LAMBDA x, y : ~IsNaN(x) /\ ~IsNaN(y) /\ ~RLt(y, x))

RGe(a, b) == RLe(b, a)

RMin(a, b) == Bind2(a, b, LAMBDA x, y : IF RLt(y, x) THEN y ELSE x)

RMax(a, b) == Bind2(a, b, LAMBDA x, y : IF RLt(x, y) THEN y ELSE x)

\* integer square root of a natural number
ISqrt(x) ==
    Bind(x, LAMBDA v : CHOOSE k \in 0..v : k * k <= v /\ (k + 1) * (k + 1) > v)

IsSquare(x) == Bind(x, LAMBDA v : v >= 0 /\ Bind(ISqrt(v), LAMBDA r : r * r = v))

\* Math.sqrt on a non-negative rational whose root is rational
RSqrt(a) ==
    Bind(a, LAMBDA x :
        IF IsNaN(x) \/ x.n < 0 THEN NaN
        ELSE IF x.d = 0 THEN PosInf
        ELSE [n |-> ISqrt(x.n), d |-> ISqrt(x.d)])

HasRationalRoot(a) ==
    Bind(a, LAMBDA x : IsFinite(x) /\ IsSquare(x.n) /\ IsSquare(x.d))

\* Math.round: the nearest integer, ties toward +Infinity
RRound(a) ==
    Bind(a, LAMBDA x :
        IF x.d = 0 THEN x
        ELSE I((2 * x.n + x.d) \div (2 * x.d)))

---------------------------------------------------------------------------
(* THREE.Vector3, THREE.Matrix4 (rotation part), THREE.Euler, THREE.Box3   *)

Zero == I(0)

One == I(1)

Vec(x, y, z) == <<I(x), I(y), I(z)>>

VAdd(a, b) ==
    Bind2(a, b, LAMBDA u, v : [k \in 1..3 |-> RAdd(u[k], v[k])])

VSub(a, b) ==
    Bind2(a, b, LAMBDA u, v : [k \in 1..3 |-> RSub(u[k], v[k])])

VDivideScalar(a, s) ==
    Bind2(a, s, LAMBDA u, t : [k \in 1..3 |-> RDiv(u[k], t)])

VNegate(a) == Bind(a, LAMBDA u : [k \in 1..3 |-> RNeg(u[k])])

VDot(a, b) ==
    Bind2(a, b, LAMBDA u, v :
        RAdd(RAdd(RMul(u[1], v[1]), RMul(u[2], v[2])), RMul(u[3], v[3])))

VCross(a, b) ==
    Bind2(a, b, LAMBDA u, v :
        << RSub(RMul(u[2], v[3]), RMul(u[3], v[2])),
           RSub(RMul(u[3], v[1]), RMul(u[1], v[3])),
           RSub(RMul(u[1], v[2]), RMul(u[2], v[1])) >>)

VLengthSq(a) == Bind(a, LAMBDA u : VDot(u, u))

VLength(a) == RSqrt(VLengthSq(a))

\* Vector3.normalize: divideScalar(length() || 1)
VNormalize(a) ==
    Bind(a, LAMBDA u :
        Bind(VLength(u), LAMBDA len :
            VDivideScalar(u, IF len = Zero \/ IsNaN(len) THEN One ELSE len)))

\* a . normalize(v) > t for a threshold t >= 0, without taking the root of
\* |v|^2: the dot product is positive and its square exceeds t^2 |v|^2.
\* (normalize leaves the zero vector zero, and then the dot product is 0.)
DotNormalizedGt(a, v, t) ==
    Bind3(VDot(a, v), VLengthSq(v), t, LAMBDA product, lengthSq, threshold :
        /\ RGt(product, Zero)
        /\ RGt(RMul(product, product), RMul(RMul(threshold, threshold), lengthSq)))

upVector == Vec(0, 1, 0)

downVector == Vec(0, -1, 0)

\* An angle is kept as its point on the unit circle, [c |-> cos, s |-> sin]
Angle(c, s) == [c |-> c, s |-> s]

Angle0 == Angle(One, Zero)

HalfPi == Angle(Zero, One)

MinusHalfPi == Angle(Zero, I(-1))

Pi == Angle(I(-1), Zero)

\* Math.acos, Math.asin, Math.atan2
Acos(x) == Bind(x, LAMBDA c : Angle(c, RSqrt(RSub(One, RMul(c, c)))))

Asin(x) == Bind(x, LAMBDA t : Angle(RSqrt(RSub(One, RMul(t, t))), t))

Atan2(y, x) ==
    Bind2(y, x, LAMBDA t, c :
        Bind(RSqrt(RAdd(RMul(c, c), RMul(t, t))), LAMBDA r :
            IF r = Zero THEN Angle0 ELSE Angle(RDiv(c, r), RDiv(t, r))))

Euler(x, y, z) == [x |-> x, y |-> y, z |-> z]

\* Matrix4.makeRotationFromEuler, order XYZ; a matrix is <<row1, row2, row3>>
makeRotationFromEuler(euler) ==
    Bind(euler, LAMBDA e :
        LET a == e.x.c
            b == e.x.s
            c == e.y.c
            d == e.y.s
            ee == e.z.c
            f == e.z.s
        IN  << << RMul(c, ee), RNeg(RMul(c, f)), d >>,
               << RAdd(RMul(a, f), RMul(RMul(b, ee), d)),
                  RSub(RMul(a, ee), RMul(RMul(b, f), d)),
                  RNeg(RMul(b, c)) >>,
               << RSub(RMul(b, f), RMul(RMul(a, ee), d)),
                  RAdd(RMul(b, ee), RMul(RMul(a, f), d)),
                  RMul(a, c) >> >>)

\* Vector3.applyMatrix4 for a rotation matrix
applyMatrix4(v, m) ==
    Bind2(v, m, LAMBDA u, rows : [k \in 1..3 |-> VDot(rows[k], u)])

\* Quaternion.setFromAxisAngle(axis, angle) followed by the matrix three.js
\* builds from that quaternion (x, y, z, w) = (axis sin(t/2), cos(t/2)):
\* 2x^2 = kx^2 (1 - cos t), 2xy = kx ky (1 - cos t), 2xw = kx sin t.
matrixFromAxisAngle(axis, angle) ==
    Bind3(axis, RSub(One, angle.c), angle.s, LAMBDA k, c1, s :
        Bind3(<< RMul(RMul(k[1], k[1]), c1), RMul(RMul(k[2], k[2]), c1),
                 RMul(RMul(k[3], k[3]), c1) >>,
              << RMul(RMul(k[1], k[2]), c1), RMul(RMul(k[1], k[3]), c1),
                 RMul(RMul(k[2], k[3]), c1) >>,
              << RMul(k[1], s), RMul(k[2], s), RMul(k[3], s) >>,
              LAMBDA sq, mixed, w :
                  LET xx == sq[1]
                      yy == sq[2]
                      zz == sq[3]
                      xy == mixed[1]
                      xz == mixed[2]
                      yz == mixed[3]
                      wx == w[1]
                      wy == w[2]
                      wz == w[3]
                  IN  << << RSub(One, RAdd(yy, zz)), RSub(xy, wz), RAdd(xz, wy) >>,
                         << RAdd(xy, wz), RSub(One, RAdd(xx, zz)), RSub(yz, wx) >>,
                         << RSub(xz, wy), RAdd(yz, wx), RSub(One, RAdd(xx, yy)) >> >>))

Clamp(x, lo, hi) == RMax(lo, RMin(hi, x))

\* Euler.setFromRotationMatrix, order XYZ
setFromRotationMatrix(matrix) ==
    Bind(matrix, LAMBDA m :
        LET m13 == m[1][3]
            y == Asin(Clamp(m13, I(-1), One))
        IN  IF RLt(Q(Abs(m13.n), m13.d), Q(9999999, 10000000))
            THEN Euler(Atan2(RNeg(m[2][3]), m[3][3]), y, Atan2(RNeg(m[1][2]), m[1][1]))
            ELSE Euler(Atan2(m[3][2], m[2][2]), y, Angle0))

---------------------------------------------------------------------------
(* THREE.BufferGeometry: a non-indexed triangle list.  Triangle i holds    *)
(* the three vertex positions p and the three vertex normals n of          *)
(* vertices 3i, 3i+1, 3i+2 of the position and normal attributes.          *)

NoBox == [isNull |-> TRUE, min |-> Vec(0, 0, 0), max |-> Vec(0, 0, 0)]

\* a geometry with both attributes; attributes names those it has
Geometry(tris) ==
    [tris |-> tris, boundingBox |-> NoBox, attributes |-> {"position", "normal"}]

\* Box3.expandByPoint for every point in turn, from the box start: the
\* least and the greatest of each coordinate
BoxOfPoints(points, start) ==
    Bind2(points, start, LAMBDA pts, box :
        LET MinOf(S) == IF \E x \in S : IsNaN(x) THEN NaN
                        ELSE CHOOSE x \in S : \A y \in S : RLe(x, y)
            MaxOf(S) == IF \E x \in S : IsNaN(x) THEN NaN
                        ELSE CHOOSE x \in S : \A y \in S : RLe(y, x)
            coords(k) == {pts[i][k] : i \in 1..Len(pts)}
        IN  IF pts = <<>> THEN box
            ELSE [isNull |-> FALSE,
                  min |-> << MinOf({box.min[1]} \cup coords(1)),
                             MinOf({box.min[2]} \cup coords(2)),
                             MinOf({box.min[3]} \cup coords(3)) >>,
                  max |-> << MaxOf({box.max[1]} \cup coords(1)),
                             MaxOf({box.max[2]} \cup coords(2)),
                             MaxOf({box.max[3]} \cup coords(3)) >>])

\* the position attribute: three vertices per triangle, none when the
\* geometry has no positions
Vertices(triangles) ==
    Bind(triangles, LAMBDA tris :
        IF tris = <<>> \/ tris[1].p = <<>> THEN <<>>
        ELSE [i \in 1..(3 * Len(tris)) |->
                 tris[((i - 1) \div 3) + 1].p[((i - 1) % 3) + 1]])

\* BufferGeometry.computeBoundingBox: Box3.setFromBufferAttribute starts from
\* the empty box (min = +Infinity, max = -Infinity)
computeBoundingBox(tris) ==
    BoxOfPoints(Vertices(tris),
                [isNull |-> FALSE,
                 min |-> <<PosInf, PosInf, PosInf>>,
                 max |-> <<NegInf, NegInf, NegInf>>])

BoxIsEmpty(b) ==
    Bind(b, LAMBDA box :
        \/ RLt(box.max[1], box.min[1])
        \/ RLt(box.max[2], box.min[2])
        \/ RLt(box.max[3], box.min[3]))

\* Box3.getCenter
getCenter(b) ==
    Bind(b, LAMBDA box :
        IF BoxIsEmpty(box) THEN Vec(0, 0, 0)
        ELSE VDivideScalar(VAdd(box.min, box.max), I(2)))

\* BufferGeometry.applyMatrix4 with a rotation matrix: the positions it has
\* are transformed, the normals it has are transformed and normalized, and
\* a bounding box that was already computed is computed again
geometryApplyMatrix4(geom, matrix) ==
    Bind2(geom, matrix, LAMBDA g, m :
        Bind([i \in 1..Len(g.tris) |->
                 [p |-> [k \in DOMAIN g.tris[i].p |->
                            applyMatrix4(g.tris[i].p[k], m)],
                  n |-> [k \in DOMAIN g.tris[i].n |->
                            VNormalize(applyMatrix4(g.tris[i].n[k], m))]]],
             LAMBDA rot :
                 [tris |-> rot,
                  boundingBox |-> IF g.boundingBox.isNull THEN NoBox
                                  ELSE computeBoundingBox(rot),
                  attributes |-> g.attributes]))

\* the face normal both detectFeatures and calculateSupportVolume use: the
\* average of the three vertex normals, normalized
faceNormal(triangle) ==
    Bind(triangle, LAMBDA tri :
        VNormalize(VDivideScalar(VAdd(VAdd(tri.n[1], tri.n[2]), tri.n[3]), I(3))))

---------------------------------------------------------------------------
(* OrientationAnalyzer                                                     *)

normalThreshold == Q(95, 100)

holeDetectionThreshold == Q(8, 10)

\* isPotentialHoleFace: the face normal points toward the centre of the
\* geometry's bounding box from the face centre
isPotentialHoleFace(g, triangle, normal) ==
    Bind2(triangle, getCenter(computeBoundingBox(g.tris)), LAMBDA tri, geometryCenter :
        LET center == VDivideScalar(VAdd(VAdd(tri.p[1], tri.p[2]), tri.p[3]), I(3))
            toCenterVector == VSub(geometryCenter, center)
        IN  DotNormalizedGt(normal, toCenterVector, holeDetectionThreshold))

\* processHoleCandidates losing its first candidate
processHoleCandidatesDroppingFirst(candidates) == Tail(candidates)

processHoleCandidates(candidates) == candidates

RECURSIVE SumHoleNormals(_, _)
SumHoleNormals(geom, indices) ==
    Bind2(geom, indices, LAMBDA g, holeIndices :
        IF holeIndices = <<>> THEN Vec(0, 0, 0)
        ELSE VAdd(faceNormal(g.tris[Head(holeIndices) + 1]),
                  SumHoleNormals(g, Tail(holeIndices))))

\* determineFunctionalDirection: the negated, normalized average hole normal
determineFunctionalDirection(g, indices) ==
    Bind(indices, LAMBDA holeIndices :
        Bind(SumHoleNormals(g, holeIndices), LAMBDA sum :
            LET avgNormal == IF Len(holeIndices) > 0
                             THEN VDivideScalar(sum, I(Len(holeIndices)))
                             ELSE sum
            IN  VNormalize(VNegate(avgNormal))))

FaceIndices(g) == [i \in 1..Len(g.tris) |-> i - 1]

\* the three index lists detectFeatures collects in its loop over the faces,
\* and the two flags the loop sets when it finds a face
faceLists(g) ==
    [flat |-> SelectSeq(FaceIndices(g), LAMBDA i :
                  RGt(VDot(faceNormal(g.tris[i + 1]), upVector), normalThreshold)),
     hasFlat |-> \E k \in 1..Len(g.tris) :
                  RGt(VDot(faceNormal(g.tris[k]), upVector), normalThreshold),
     potentialHoleFaces |-> SelectSeq(FaceIndices(g), LAMBDA i :
                  isPotentialHoleFace(g, g.tris[i + 1], faceNormal(g.tris[i + 1]))),
     over |-> SelectSeq(FaceIndices(g), LAMBDA i :
                  RGt(VDot(faceNormal(g.tris[i + 1]), downVector),
                      RMul(normalThreshold, Q(7, 10)))),
     hasOver |-> \E k \in 1..Len(g.tris) :
                  RGt(VDot(faceNormal(g.tris[k]), downVector),
                      RMul(normalThreshold, Q(7, 10)))]

\* the result detectFeatures starts from
NoFeatures ==
    [hasFlatSurfaces |-> FALSE, flatSurfaceIndices |-> <<>>,
     hasHoles |-> FALSE, holeIndices |-> <<>>,
     hasOverhangs |-> FALSE, overhangIndices |-> <<>>,
     hasFunctionalDirection |-> FALSE, functionalDirection |-> Vec(0, 0, 0)]

\* detectFeatures.  functionalDirection is optional in the code: here
\* hasFunctionalDirection says whether the field is set.  A geometry
\* without a position or a normal attribute gets the initial result.
detectFeatures(geom) ==
    Bind(geom, LAMBDA g :
        IF g.attributes # {"position", "normal"} THEN NoFeatures
        ELSE
        Bind(faceLists(g), LAMBDA lists :
            LET holeIndices == IF Len(lists.potentialHoleFaces) > 0
                               THEN processHoleCandidates(lists.potentialHoleFaces)
                               ELSE <<>>
                hasDir == Len(lists.potentialHoleFaces) > 0 /\ Len(holeIndices) > 0
            IN  [hasFlatSurfaces |-> lists.hasFlat,
                 flatSurfaceIndices |-> lists.flat,
                 hasHoles |-> Len(lists.potentialHoleFaces) > 0,
                 holeIndices |-> holeIndices,
                 hasOverhangs |-> lists.hasOver,
                 overhangIndices |-> lists.over,
                 hasFunctionalDirection |-> hasDir,
                 functionalDirection |-> IF hasDir
                                         THEN determineFunctionalDirection(g, holeIndices)
                                         ELSE Vec(0, 0, 0)]))

\* the geometry after detectFeatures: isPotentialHoleFace calls
\* this.geometry.computeBoundingBox() for every face
geometryAfterDetect(geom) ==
    Bind(geom, LAMBDA g :
        IF Len(g.tris) > 0 /\ g.attributes = {"position", "normal"}
        THEN [g EXCEPT !.boundingBox = computeBoundingBox(g.tris)]
        ELSE g)

\* the six standard orientations, in the order they are pushed
standardOrientations ==
    << Euler(Angle0, Angle0, Angle0),
       Euler(HalfPi, Angle0, Angle0),
       Euler(MinusHalfPi, Angle0, Angle0),
       Euler(Angle0, HalfPi, Angle0),
       Euler(Angle0, MinusHalfPi, Angle0),
       Euler(Pi, Angle0, Angle0) >>

\* the axis test written as length() > 1.01, which no normalized axis passes
rotationAxisThresholdAboveOne == Q(101, 100)

\* rotationAxis.length() > 0.01
rotationAxisThreshold == Q(1, 100)

generateCandidateOrientations(detected) ==
    Bind(detected, LAMBDA f :
        IF f.hasFunctionalDirection
        THEN Bind(VNormalize(VCross(f.functionalDirection, upVector)),
                  LAMBDA rotationAxis :
                 IF RGt(VLength(rotationAxis), rotationAxisThreshold)
                 THEN LET angle == Acos(VDot(f.functionalDirection, upVector))
                          euler == setFromRotationMatrix(
                                       matrixFromAxisAngle(rotationAxis, angle))
                      IN  Append(standardOrientations, euler)
                 ELSE standardOrientations)
        ELSE standardOrientations)

\* calculateSupportVolume: the share of faces whose normal points downward
\* beyond 0.7; 0/0 for a geometry without faces
supportFaceThreshold == Q(7, 10)

calculateSupportVolume(geom) ==
    Bind(geom, LAMBDA g :
        LET supportFaces == SelectSeq(FaceIndices(g), LAMBDA i :
                RGt(VDot(faceNormal(g.tris[i + 1]), downVector), supportFaceThreshold))
        IN  RDiv(I(Len(supportFaces)), RDiv(I(3 * Len(g.tris)), I(3))))

\* estimatePrintTime: height * (1 + supportVolume * 0.5)
estimatePrintTime(g, supportVolume) ==
    Bind(computeBoundingBox(g.tris), LAMBDA box :
        LET height == RSub(box.max[2], box.min[2])
        IN  RMul(height, RAdd(One, RMul(supportVolume, Q(1, 2)))))

\* estimatePrintQuality with 0 instead of 0.5 as its neutral value
estimatePrintQualityNeutralZero(g, detected) ==
    Bind(detected, LAMBDA f :
        IF f.hasHoles /\ f.hasFunctionalDirection
        THEN RDiv(RAdd(VDot(f.functionalDirection, upVector), One), I(2))
        ELSE Zero)

\* estimatePrintQuality reading the hole normals of the geometry it is handed
estimatePrintQualityOfRotated(g, detected) ==
    Bind(detected, LAMBDA f :
        IF f.hasHoles /\ f.hasFunctionalDirection
        THEN RDiv(RAdd(VDot(determineFunctionalDirection(g, f.holeIndices), upVector),
                       One), I(2))
        ELSE Q(1, 2))

\* estimatePrintQuality: reads the functional direction as detected, not the
\* geometry it is handed
estimatePrintQuality(g, detected) ==
    Bind(detected, LAMBDA f :
        IF f.hasHoles /\ f.hasFunctionalDirection
        THEN RDiv(RAdd(VDot(f.functionalDirection, upVector), One), I(2))
        ELSE Q(1, 2))

alignmentThreshold == Q(8, 10)

\* features.functionalDirection.dot(rotatedUp), rotatedUp the up vector
\* taken through the orientation's rotation matrix
alignment(f, orientation) ==
    VDot(f.functionalDirection,
         applyMatrix4(upVector, makeRotationFromEuler(orientation)))

calculateOverallScoreSwapped(supportVolume, printTime, quality, detected, orientation) ==
    Bind(detected, LAMBDA f :
        LET supportScore == RSub(One, supportVolume)
            timeScore == RSub(One, printTime)
        IN  Bind(RAdd(RAdd(RMul(supportScore, Q(2, 10)), RMul(timeScore, Q(3, 10))),
                      RMul(quality, Q(5, 10))),
                 LAMBDA score :
                     IF /\ f.hasHoles
                        /\ f.hasFunctionalDirection
                        /\ RGt(alignment(f, orientation), alignmentThreshold)
                     THEN RAdd(score, Q(2, 10))
                     ELSE score))

calculateOverallScore(supportVolume, printTime, quality, detected, orientation) ==
    Bind(detected, LAMBDA f :
        LET supportScore == RSub(One, supportVolume)
            timeScore == RSub(One, printTime)
        IN  Bind(RAdd(RAdd(RMul(supportScore, Q(3, 10)), RMul(timeScore, Q(2, 10))),
                      RMul(quality, Q(5, 10))),
                 LAMBDA score :
                     IF /\ f.hasHoles
                        /\ f.hasFunctionalDirection
                        /\ RGt(alignment(f, orientation), alignmentThreshold)
                     THEN RAdd(score, Q(2, 10))
                     ELSE score))

\* generateOrientationDescription: the parts of the string.  The three
\* angles are kept as they are (the code prints them rounded to degrees).
generateOrientationDescription(orientation, total, supportVolume, detected) ==
    Bind3(total, detected, alignment(detected, orientation), LAMBDA score, f, aligned :
        [rotation |-> orientation,
         support |-> RRound(RMul(supportVolume, I(100))),
         holes |-> IF f.hasHoles /\ f.hasFunctionalDirection
                   THEN (IF RGt(aligned, alignmentThreshold)
                         THEN "Holes facing upward (optimal)"
                         ELSE IF RLt(aligned, RNeg(alignmentThreshold))
                         THEN "Holes facing downward (poor)"
                         ELSE "Holes facing sideways")
                   ELSE "",
         assessment |-> IF RGt(score, Q(8, 10)) THEN "Excellent orientation"
                        ELSE IF RGt(score, Q(6, 10)) THEN "Good orientation"
                        ELSE IF RGt(score, Q(4, 10)) THEN "Average orientation"
                        ELSE "Poor orientation"])

\* Which geometry a candidate is rotated in: scoreOrientations rotates
\* tempGeometry = this.geometry.clone(), so this.geometry stays as it was.
\* "temp" is the clone, "this" the analyzer's own geometry.
\* scoreOrientations without the clone: tempGeometry = this.geometry
tempGeometryIsThis == "this"

tempGeometryIs == "temp"

\* the four numbers scoreOrientations computes for one orientation
scoreFactors(tempGeometry, f, orientation) ==
    Bind(calculateSupportVolume(tempGeometry), LAMBDA supportVolume :
        Bind(estimatePrintTime(tempGeometry, supportVolume), LAMBDA printTime :
            Bind(estimatePrintQuality(tempGeometry, f), LAMBDA quality :
                [supportVolume |-> supportVolume,
                 printTime |-> printTime,
                 quality |-> quality,
                 score |-> calculateOverallScore(supportVolume, printTime, quality,
                                                 f, orientation)])))

\* one pass of the loop body of scoreOrientations; returns the result and
\* the analyzer's geometry after the pass
scoreOrientation(geom, euler, detected) ==
    Bind3(geom, euler, detected, LAMBDA g, orientation, f :
        Bind(geometryApplyMatrix4(g, makeRotationFromEuler(orientation)),
             LAMBDA tempGeometry :
            Bind(scoreFactors(tempGeometry, f, orientation), LAMBDA factors :
                [geometry |-> IF tempGeometryIs = "temp" THEN g
                              ELSE [tempGeometry EXCEPT
                                       !.boundingBox =
                                           computeBoundingBox(tempGeometry.tris)],
                 result |-> [rotation |-> orientation,
                             score |-> factors.score,
                             supportVolume |-> factors.supportVolume,
                             printTime |-> factors.printTime,
                             quality |-> factors.quality,
                             description |-> generateOrientationDescription(
                                                 orientation, factors.score,
                                                 factors.supportVolume, f)]])))

\* calculateSupportVolume reads normals.count: a TypeError when the
\* geometry has no normal attribute
readsCountOfUndefined(g) == "normal" \notin g.attributes

\* scoreOrientations: [geometry, results, thrown] after scoring every
\* orientation, or up to the pass that throws
RECURSIVE scoreOrientations(_, _, _)
scoreOrientations(g, orientations, f) ==
    IF orientations = <<>>
    THEN [geometry |-> g, results |-> <<>>, thrown |-> "none"]
    ELSE Bind(scoreOrientations(g, SubSeq(orientations, 1, Len(orientations) - 1), f),
              LAMBDA earlier :
             IF earlier.thrown # "none" THEN earlier
             ELSE IF readsCountOfUndefined(earlier.geometry)
             THEN [earlier EXCEPT !.thrown = "TypeError"]
             ELSE Bind(scoreOrientation(earlier.geometry,
                                        orientations[Len(orientations)], f),
                       LAMBDA one :
                           [geometry |-> one.geometry,
                            results |-> Append(earlier.results, one.result),
                            thrown |-> "none"]))

\* the comparator of the final sort, (a, b) => b.score - a.score
compareScores(a, b) == RSub(b.score, a.score)

\* Array.prototype.sort: a stable insertion of each element in turn; an
\* element moves in front of those the comparator puts it strictly before
RECURSIVE InsertSorted(_, _)
InsertSorted(list, element) ==
    Bind2(list, element, LAMBDA sorted, x :
        IF sorted = <<>> THEN <<x>>
        ELSE Bind(sorted[Len(sorted)], LAMBDA last :
                 IF RLt(compareScores(x, last), Zero)
                 THEN Append(InsertSorted(SubSeq(sorted, 1, Len(sorted) - 1), x), last)
                 ELSE Append(sorted, x)))

RECURSIVE SortFrom(_, _)
SortFrom(done, todo) ==
    Bind2(done, todo, LAMBDA sorted, rest :
        IF rest = <<>> THEN sorted
        ELSE SortFrom(InsertSorted(sorted, Head(rest)), Tail(rest)))

sortByScore(scored) == SortFrom(<<>>, scored)

\* analyzeOrientation: detect, generate, score, sort
analyzeOrientation(g) ==
    Bind2(detectFeatures(g), geometryAfterDetect(g), LAMBDA f, g1 :
        Bind(generateCandidateOrientations(f), LAMBDA candidates :
            Bind(scoreOrientations(g1, candidates, f), LAMBDA scored :
                [features |-> f,
                 candidates |-> candidates,
                 geometry |-> scored.geometry,
                 thrown |-> scored.thrown,
                 results |-> IF scored.thrown = "none"
                             THEN sortByScore(scored.results)
                             ELSE <<>>])))

---------------------------------------------------------------------------
(* IEEE-754 doubles for the fit checker and the volume integrator.         *)
(* Every number the two compute is a multiple of 2^-60 below 2^19, so     *)
(* a double is kept as a sign and a magnitude counted in units of 2^-60;   *)
(* the magnitude is a natural number written in NumLimbs limbs of 16 bits, *)
(* least significant first.  An operation computes the exact result and    *)
(* rounds it to 53 significant bits, to nearest, ties to even.             *)

LimbBase == 2^16

NumLimbs == 5

MagZero == [i \in 1..NumLimbs |-> 0]

RECURSIVE MagCarry(_, _)
MagCarry(raw, c) ==
    IF raw = <<>> THEN <<>>
    ELSE LET t == Head(raw) + c
         IN  <<t % LimbBase>> \o MagCarry(Tail(raw), t \div LimbBase)

MagAdd(a, b) == MagCarry([i \in 1..NumLimbs |-> a[i] + b[i]], 0)

\* a - b for a >= b
MagSub(a, b) == MagCarry([i \in 1..NumLimbs |-> a[i] - b[i]], 0)

MagMulSmall(a, k) == MagCarry([i \in 1..NumLimbs |-> a[i] * k], 0)

RECURSIVE MagLessFrom(_, _, _)
MagLessFrom(a, b, i) ==
    IF i = 0 THEN FALSE
    ELSE IF a[i] # b[i] THEN a[i] < b[i]
    ELSE MagLessFrom(a, b, i - 1)

MagLess(a, b) == MagLessFrom(a, b, NumLimbs)

\* a / 2 for an even a
MagHalf(a) ==
    [i \in 1..NumLimbs |->
        a[i] \div 2 + (IF i < NumLimbs /\ a[i + 1] % 2 = 1 THEN LimbBase \div 2 ELSE 0)]

RECURSIVE BitsOf(_)
BitsOf(x) == IF x = 0 THEN 0 ELSE 1 + BitsOf(x \div 2)

RECURSIVE TopLimb(_, _)
TopLimb(a, i) == IF i = 0 \/ a[i] # 0 THEN i ELSE TopLimb(a, i - 1)

MagBitLen(a) ==
    LET top == TopLimb(a, NumLimbs)
    IN  IF top = 0 THEN 0 ELSE 16 * (top - 1) + BitsOf(a[top])

\* the bits of a below bit r
MagLow(a, r) ==
    [i \in 1..NumLimbs |->
        IF 16 * i <= r THEN a[i]
        ELSE IF 16 * (i - 1) < r THEN a[i] % 2^(r - 16 * (i - 1))
        ELSE 0]

\* 2^r
MagPow2(r) == [i \in 1..NumLimbs |-> IF i = r \div 16 + 1 THEN 2^(r % 16) ELSE 0]

\* bit r of a
MagBit(a, r) == (a[r \div 16 + 1] \div 2^(r % 16)) % 2

\* the significand of a binary64 number has 52 stored bits and a leading one
SignificandBits == 53

\* round to 53 significant bits, to nearest, ties to even
Round53(a) ==
    LET r == MagBitLen(a) - SignificandBits
    IN  IF r <= 0 THEN a
        ELSE LET rem == MagLow(a, r)
                 half == MagPow2(r - 1)
                 down == MagSub(a, rem)
             IN  IF MagLess(half, rem) \/ (rem = half /\ MagBit(a, r) = 1)
                 THEN MagAdd(down, MagPow2(r))
                 ELSE down

Dbl(neg, mag) == [neg |-> neg /\ mag # MagZero, mag |-> mag]

DZero == Dbl(FALSE, MagZero)

DNeg(a) == Dbl(~a.neg, a.mag)

DAdd(a, b) ==
    IF a.neg = b.neg THEN Dbl(a.neg, Round53(MagAdd(a.mag, b.mag)))
    ELSE IF MagLess(a.mag, b.mag) THEN Dbl(b.neg, Round53(MagSub(b.mag, a.mag)))
    ELSE Dbl(a.neg, Round53(MagSub(a.mag, b.mag)))

DSub(a, b) == DAdd(a, DNeg(b))

DLt(a, b) ==
    IF a.neg /\ ~b.neg THEN TRUE
    ELSE IF ~a.neg /\ b.neg THEN FALSE
    ELSE IF a.neg THEN MagLess(b.mag, a.mag)
    ELSE MagLess(a.mag, b.mag)

DGt(a, b) == DLt(b, a)

DLe(a, b) == ~DLt(b, a)

DGe(a, b) == ~DLt(a, b)

\* a / 2, exact
DHalf(a) == Dbl(a.neg, MagHalf(a.mag))

\* the double of an integer below 2^19 in magnitude: n * 2^60 units
DInt(n) == Dbl(n < 0, MagCarry(<<0, 0, 0, Abs(n) * 2^12, 0>>, 0))

\* long division of a magnitude by a small k, from the top limb down:
\* [q, r] with a = q * k + r
RECURSIVE MagDivFrom(_, _, _, _)
MagDivFrom(a, k, i, carry) ==
    IF i = 0 THEN [q |-> MagZero, r |-> carry]
    ELSE LET t == carry * LimbBase + a[i]
             rest == MagDivFrom(a, k, i - 1, t % k)
         IN  [q |-> [rest.q EXCEPT ![i] = t \div k], r |-> rest.r]

MagDivSmall(a, k) == MagDivFrom(a, k, NumLimbs, 0)

\* a / k for a small integer k > 0, rounded once: the quotient in units of
\* 2^-60 has at least 5 bits below the 53 that are kept, so an inexact
\* quotient is marked by setting its lowest bit before rounding
DDivSmall(a, k) ==
    LET d == MagDivSmall(a.mag, k)
        sticky == IF d.r = 0 \/ d.q[1] % 2 = 1 THEN d.q
                  ELSE [d.q EXCEPT ![1] = d.q[1] + 1]
    IN  Dbl(a.neg, Round53(sticky))

\* Math.abs
DAbs(a) == Dbl(FALSE, a.mag)

\* const scale = 0.01: the double nearest to 0.01 is 5764607523034235 * 2^-59,
\* whose significand is written here in 16-bit limbs
scaleSignificand == <<5243, 18350, 31457, 20, 0>>

\* x * scale for a length x given in half millimetres (x = h / 2): the exact
\* product is |h| * 5764607523034235 units of 2^-60
timesScale(h) == Dbl(h < 0, Round53(MagMulSmall(scaleSignificand, Abs(h))))

---------------------------------------------------------------------------
(* tryToFitModelOnBuildPlate.  Lengths in millimetres are multiples of 1/2 *)
(* and are written in half millimetres; scaled lengths are doubles.        *)

\* buildVolume: width, height and depth in millimetres
buildVolumeWidth == 256

buildVolumeHeight == 256

buildVolumeDepth == 256

\* the dimension test with the sizes compared to the scaled width 2.56
\* (5.12 half millimetres) instead of the width in millimetres
exceedsScaledBuildVolume(modelSize) ==
    \/ 100 * modelSize[1] > 2 * buildVolumeWidth
    \/ 100 * modelSize[2] > 2 * buildVolumeHeight
    \/ 100 * modelSize[3] > 2 * buildVolumeDepth

\* the dimension test without the height
exceedsBuildVolumeFootprint(modelSize) ==
    \/ modelSize[1] > 2 * buildVolumeWidth
    \/ modelSize[3] > 2 * buildVolumeDepth

\* modelSize.x > buildVolume.width || modelSize.y > buildVolume.height ||
\* modelSize.z > buildVolume.depth
exceedsBuildVolume(modelSize) ==
    \/ modelSize[1] > 2 * buildVolumeWidth
    \/ modelSize[2] > 2 * buildVolumeHeight
    \/ modelSize[3] > 2 * buildVolumeDepth

\* the offset that brings [lo, hi] inside [-half, half]: the lower edge is
\* aligned when it sticks out, else the upper edge when that sticks out
edgeOffset(lo, hi, half) ==
    IF DLt(lo, DNeg(half)) THEN DSub(DNeg(half), lo)
    ELSE IF DGt(hi, half) THEN DSub(half, hi)
    ELSE DZero

tryToFitModelOnBuildPlate(modelSize, modelMin, modelMax) ==
    LET scaledWidth == timesScale(2 * buildVolumeWidth)
        scaledDepth == timesScale(2 * buildVolumeDepth)
        halfScaledWidth == DHalf(scaledWidth)
        halfScaledDepth == DHalf(scaledDepth)
        scaledModelMin == [k \in 1..3 |-> timesScale(modelMin[k])]
        scaledModelMax == [k \in 1..3 |-> timesScale(modelMax[k])]
        offsetX == edgeOffset(scaledModelMin[1], scaledModelMax[1], halfScaledWidth)
        offsetZ == edgeOffset(scaledModelMin[3], scaledModelMax[3], halfScaledDepth)
        adjustedMin == << DAdd(scaledModelMin[1], offsetX), scaledModelMin[2],
                          DAdd(scaledModelMin[3], offsetZ) >>
        adjustedMax == << DAdd(scaledModelMax[1], offsetX), scaledModelMax[2],
                          DAdd(scaledModelMax[3], offsetZ) >>
        fits == /\ DGe(adjustedMin[1], DNeg(halfScaledWidth))
                /\ DLe(adjustedMax[1], halfScaledWidth)
                /\ DGe(adjustedMin[3], DNeg(halfScaledDepth))
                /\ DLe(adjustedMax[3], halfScaledDepth)
    IN  IF exceedsBuildVolume(modelSize)
        THEN [canFit |-> FALSE, offsetX |-> DZero, offsetZ |-> DZero]
        ELSE [canFit |-> fits, offsetX |-> offsetX, offsetZ |-> offsetZ]

\* mesh.position.set(fitResult.offsetX, -boundingBox.min.y * scale,
\* fitResult.offsetZ) with mesh.scale = scale: the corners of the placed box
placedBox(b, f) ==
    LET position == << f.offsetX, timesScale(-b.min[2]), f.offsetZ >>
    IN  [min |-> [k \in 1..3 |-> DAdd(timesScale(b.min[k]), position[k])],
         max |-> [k \in 1..3 |-> DAdd(timesScale(b.max[k]), position[k])]]

\* Box3.getSize of a box given in half millimetres
boxSize(b) == [k \in 1..3 |-> b.max[k] - b.min[k]]

---------------------------------------------------------------------------
(* calculateVolume, STL branch.  A file is a sequence of facets, each a    *)
(* normal and three corners; all coordinates are integers, which the       *)
(* loader's Float32Array holds exactly.  The products and sums of          *)
(* Vector3.cross and Vector3.dot are then integers far below 2^53, hence   *)
(* exact in binary64; the division by 6.0 and the running sum round.       *)

Facet(n, a, b, c) == [normal |-> n, v1 |-> a, v2 |-> b, v3 |-> c]

\* STLLoader.parse: a non-indexed geometry, one vertex per facet corner,
\* carrying the facet's normal
parse(file) ==
    [i \in 1..(3 * Len(file)) |->
        LET facet == file[(i - 1) \div 3 + 1]
        IN  [position |-> IF i % 3 = 1 THEN facet.v1
                          ELSE IF i % 3 = 2 THEN facet.v2
                          ELSE facet.v3,
             normal |-> facet.normal]]

RECURSIVE IndexOf(_, _, _)
IndexOf(list, x, i) ==
    IF i > Len(list) THEN 0
    ELSE IF list[i] = x THEN i
    ELSE IndexOf(list, x, i + 1)

\* mergeVertices: vertices whose attributes all hash alike become one, the
\* first of them; the hash cells are 1e-4 wide, so integer positions and
\* distinct facet normals fall in a cell each.  [vertices, index]
RECURSIVE mergeVerticesFrom(_, _, _, _)
mergeVerticesFrom(corners, i, kept, index) ==
    IF i > Len(corners) THEN [vertices |-> kept, index |-> index]
    ELSE LET found == IndexOf(kept, corners[i], 1)
         IN  IF found # 0
             THEN mergeVerticesFrom(corners, i + 1, kept, Append(index, found))
             ELSE mergeVerticesFrom(corners, i + 1, Append(kept, corners[i]),
                                    Append(index, Len(kept) + 1))

mergeVertices(corners) == mergeVerticesFrom(corners, 1, <<>>, <<>>)

\* Vector3.cross and Vector3.dot on integer vectors
crossVectors(a, b) ==
    << a[2] * b[3] - a[3] * b[2],
       a[3] * b[1] - a[1] * b[3],
       a[1] * b[2] - a[2] * b[1] >>

dot(a, b) == a[1] * b[1] + a[2] * b[2] + a[3] * b[3]

\* p1.dot(p2.cross(p3)) / 3.0
signedVolumeOfTriangleOverThree(p1, p2, p3) ==
    DDivSmall(DInt(dot(p1, crossVectors(p2, p3))), 3)

\* p1.dot(p2.cross(p3)) / 6.0
signedVolumeOfTriangle(p1, p2, p3) ==
    DDivSmall(DInt(dot(p1, crossVectors(p2, p3))), 6)

\* for (let i = 0; i < count; i += 3) volume += signedVolumeOfTriangle(...)
\* with i counted from 1
RECURSIVE sumTriangles(_, _, _, _)
sumTriangles(indexed, i, count, sum) ==
    IF i > count THEN sum
    ELSE LET v1 == indexed.vertices[indexed.index[i]].position
             v2 == indexed.vertices[indexed.index[i + 1]].position
             v3 == indexed.vertices[indexed.index[i + 2]].position
         IN  sumTriangles(indexed, i + 3, count,
                          DAdd(sum, signedVolumeOfTriangle(v1, v2, v3)))

\* the loop stopping one triangle early (i < index.count - 3)
calculateVolumeSkippingLast(file) ==
    LET indexed == mergeVertices(parse(file))
    IN  DAbs(sumTriangles(indexed, 1, Len(indexed.index) - 3, DZero))

calculateVolume(file) ==
    LET indexed == mergeVertices(parse(file))
    IN  DAbs(sumTriangles(indexed, 1, Len(indexed.index), DZero))

\* a child of the object the 3MF loader returns that is a THREE.Mesh with a
\* geometry: whether the geometry has a position attribute, its triangles,
\* and the translation its world matrix applies
Mesh(hasPosition, facets, matrixWorld) ==
    [hasPosition |-> hasPosition, facets |-> facets, matrixWorld |-> matrixWorld]

\* workGeometry.applyMatrix4(child.matrixWorld)
applyMatrixWorld(mesh) ==
    [i \in 1..Len(mesh.facets) |->
        LET f == mesh.facets[i]
            p(v) == [k \in 1..3 |-> v[k] + mesh.matrixWorld[k]]
        IN  Facet(f.normal, p(f.v1), p(f.v2), p(f.v3))]

\* the loop over the index of one geometry: the signed sum of its triangles
meshVolume(facets) ==
    LET indexed == mergeVertices(parse(facets))
    IN  sumTriangles(indexed, 1, Len(indexed.index), DZero)

\* object.traverse with totalVolume += meshVolume, without Math.abs
RECURSIVE traverseSigned(_, _, _)
traverseSigned(children, i, totalVolume) ==
    IF i > Len(children) THEN totalVolume
    ELSE IF ~children[i].hasPosition
    THEN traverseSigned(children, i + 1, totalVolume)
    ELSE traverseSigned(children, i + 1,
             DAdd(totalVolume, meshVolume(applyMatrixWorld(children[i]))))

\* object.traverse: a mesh without a position attribute is skipped with a
\* warning; every other mesh adds Math.abs(meshVolume) to totalVolume
RECURSIVE traverse(_, _, _)
traverse(children, i, totalVolume) ==
    IF i > Len(children) THEN totalVolume
    ELSE IF ~children[i].hasPosition
    THEN traverse(children, i + 1, totalVolume)
    ELSE traverse(children, i + 1,
             DAdd(totalVolume, DAbs(meshVolume(applyMatrixWorld(children[i])))))

resolve(value) == [state |-> "resolved", value |-> value, error |-> ""]

reject(error) == [state |-> "rejected", value |-> DZero, error |-> error]

pending == [state |-> "pending", value |-> DZero, error |-> ""]

\* calculateVolume(file, fileName): how the promise it returns settles.  The
\* file name's extension is file.format; for an STL file meshes[1] is the
\* geometry STLLoader.parse returns
calculateVolumePromise(file) ==
    IF file.format = "stl"
    THEN (IF ~file.meshes[1].hasPosition
          THEN reject("Geometry does not have position attribute")
          ELSE resolve(calculateVolume(file.meshes[1].facets)))
    ELSE IF file.format = "3mf"
    THEN resolve(traverse(file.meshes, 1, DZero))
    ELSE reject("Unsupported file format")

NoUpload == [format |-> "none", meshes |-> <<>>]

\* no file has been uploaded
UploadIdle ==
    /\ upload = NoUpload
    /\ promise = [w \in {"upload", "reversed"} |-> pending]

NoShape == [kind |-> "none", edge |-> 0]

NoVolume == [w \in {"file", "moved"} |-> DZero]

\* no file has been handed to calculateVolume
VolumeIdle ==
    /\ shape = NoShape
    /\ stlFile = <<>>
    /\ movedFile = <<>>
    /\ volume = NoVolume
    /\ computed = {}

NoDimensions == [file |-> 0, isTooLarge |-> FALSE]

\* the page before any upload: the store as create() leaves it and
\* PrintCalculator as its useState calls leave it, rendering nothing
SessionIdle ==
    /\ modelFile = 0
    /\ fileName = 0
    /\ published = {}
    /\ uploaded = <<>>
    /\ estimate = 0
    /\ isCalculating = FALSE
    /\ viewerKey = 0
    /\ modelDimensions = NoDimensions
    /\ inflight = <<>>
    /\ viewers = <<>>
    /\ scenes = <<>>

\* the six faces of the unit cube: outward normal and corners, counter-
\* clockwise seen from outside
cubeQuads ==
    << [n |-> <<-1, 0, 0>>, q |-> << <<0,0,0>>, <<0,0,1>>, <<0,1,1>>, <<0,1,0>> >>],
       [n |-> << 1, 0, 0>>, q |-> << <<1,0,0>>, <<1,1,0>>, <<1,1,1>>, <<1,0,1>> >>],
       [n |-> <<0, -1, 0>>, q |-> << <<0,0,0>>, <<1,0,0>>, <<1,0,1>>, <<0,0,1>> >>],
       [n |-> <<0,  1, 0>>, q |-> << <<0,1,0>>, <<0,1,1>>, <<1,1,1>>, <<1,1,0>> >>],
       [n |-> <<0, 0, -1>>, q |-> << <<0,0,0>>, <<0,1,0>>, <<1,1,0>>, <<1,0,0>> >>],
       [n |-> <<0, 0,  1>>, q |-> << <<0,0,1>>, <<1,0,1>>, <<1,1,1>>, <<0,1,1>> >>] >>

\* 12 triangles, two per face
unitCube ==
    [i \in 1..12 |->
        LET face == cubeQuads[(i - 1) \div 2 + 1]
        IN  IF i % 2 = 1 THEN Facet(face.n, face.q[1], face.q[2], face.q[3])
            ELSE Facet(face.n, face.q[1], face.q[3], face.q[4])]

---------------------------------------------------------------------------
(* The analyzer's inputs: meshes of at most MaxTris triangles taken from a *)
(* small library.  Every triangle carries one normal on its three          *)
(* vertices, as the STL loader produces them.  The normals have rational   *)
(* length (1 or 13).                                                       *)

MaxTris == 2

MaxCalls == 2

Tri(a, b, c, n) == [p |-> <<a, b, c>>, n |-> <<n, n, n>>]

TriangleLib ==
    << \* a ceiling at y = 2 facing down, and the same face facing up
      Tri(Vec(-1, 2, -1), Vec(1, 2, -1), Vec(0, 2, 2), Vec(0, -1, 0)),
      Tri(Vec(-1, 2, -1), Vec(0, 2, 2), Vec(1, 2, -1), Vec(0, 1, 0)),
      \* a floor at y = -2 facing down, and the same face facing up
      Tri(Vec(-1, -2, -1), Vec(1, -2, -1), Vec(0, -2, 2), Vec(0, -1, 0)),
      Tri(Vec(-1, -2, -1), Vec(0, -2, 2), Vec(1, -2, -1), Vec(0, 1, 0)),
      \* walls at x = 2 and x = -2, both facing -x
      Tri(Vec(2, -1, -1), Vec(2, 0, 2), Vec(2, 1, -1), Vec(-1, 0, 0)),
      Tri(Vec(-2, -1, -1), Vec(-2, 0, 2), Vec(-2, 1, -1), Vec(-1, 0, 0)),
      \* two slanted faces with normal (-5, -12, 0), on either side of the origin
      Tri(Vec(22, 19, 0), Vec(-2, 29, -13), Vec(10, 24, 13), Vec(-5, -12, 0)),
      Tri(Vec(2, -19, 0), Vec(-22, -29, -13), Vec(-10, -24, 13), Vec(-5, -12, 0)) >>

\* the non-decreasing sequences of at most k elements of the integer set S
RECURSIVE SeqsUpTo(_, _)
SeqsUpTo(S, k) ==
    IF k = 0 THEN {<<>>}
    ELSE LET shorter == SeqsUpTo(S, k - 1)
         IN  shorter \cup
             {q \in {Append(r, x) : r \in shorter, x \in S} :
                 \A j \in 1..(Len(q) - 1) : q[j] <= q[j + 1]}

\* the Euler angles of this rotation matrix have rational sines and cosines
ExactEuler(matrix) ==
    Bind(matrix, LAMBDA m :
        /\ HasRationalRoot(RSub(One, RMul(m[1][3], m[1][3])))
        /\ HasRationalRoot(RAdd(RMul(m[2][3], m[2][3]), RMul(m[3][3], m[3][3])))
        /\ HasRationalRoot(RAdd(RMul(m[1][2], m[1][2]), RMul(m[1][1], m[1][1]))))

ExactDirection(direction) ==
    Bind2(direction, VCross(direction, upVector), LAMBDA fd, cross :
        /\ HasRationalRoot(VLengthSq(cross))
        /\ cross # Vec(0, 0, 0) =>
             ExactEuler(matrixFromAxisAngle(VNormalize(cross), Acos(fd[2]))))

\* every square root the analysis of this mesh takes is rational
ExactInput(tris) ==
    Bind(Geometry(tris), LAMBDA g :
        Bind(detectFeatures(g), LAMBDA f :
            /\ HasRationalRoot(VLengthSq(SumHoleNormals(g, f.holeIndices)))
            /\ f.hasFunctionalDirection => ExactDirection(f.functionalDirection)))

\* a closed box of w by h by d, h along the up axis, with a corner at o: the
\* cube's 12 triangles, each vertex carrying its face's outward normal
Slab(w, h, d, o) ==
    [i \in 1..12 |->
        LET f == unitCube[i]
            p(v) == Vec(o[1] + w * v[1], o[2] + h * v[2], o[3] + d * v[3])
        IN  Tri(p(f.v1), p(f.v2), p(f.v3),
                Vec(f.normal[1], f.normal[2], f.normal[3]))]

\* thin slabs lying flat, their large faces facing up and down
Slabs ==
    { Slab(8, 1, 6, <<0, 0, 0>>),
      Slab(4, 1, 4, <<-2, 0, -2>>),
      Slab(20, 2, 20, <<-10, -1, -10>>) }

\* the meshes analysed: face lists of at most MaxTris library triangles, in the
\* library's order, whose analysis stays within the rationals; and the slabs
Meshes ==
    {tris \in {[k \in 1..Len(ix) |-> TriangleLib[ix[k]]] :
                  ix \in SeqsUpTo(1..Len(TriangleLib), MaxTris)} :
        ExactInput(tris)}
    \cup Slabs

\* new OrientationAnalyzer(geometry), for every mesh of the input set
InitAnalyzer ==
    /\ loaded \in Meshes
    /\ geometry = Geometry(loaded)
    /\ features = NoFeatures
    /\ results = <<>>
    /\ prevResults = <<>>
    /\ calls = 0
    /\ thrown = "none"
    /\ fitBox = [min |-> <<0, 0, 0>>, max |-> <<0, 0, 0>>]
    /\ fitResult = [canFit |-> FALSE, offsetX |-> DZero, offsetZ |-> DZero]
    /\ fitDone = FALSE
    /\ VolumeIdle
    /\ UploadIdle
    /\ SessionIdle

\* a call of analyzer.analyzeOrientation()
AnalyzeOrientation ==
    /\ calls < MaxCalls
    /\ \E r \in {analyzeOrientation(geometry)} :
           /\ geometry' = r.geometry
           /\ features' = r.features
           /\ thrown' = r.thrown
           /\ results' = IF r.thrown = "none" THEN r.results ELSE results
    /\ prevResults' = results
    /\ calls' = calls + 1
    /\ UNCHANGED <<loaded, fitVars, volumeVars, uploadVars, sessionVars>>

NextAnalyzer == AnalyzeOrientation

SpecAnalyzer == InitAnalyzer /\ [][NextAnalyzer]_vars

---------------------------------------------------------------------------
(* Geometries without a position or a normal attribute: the library's     *)
(* meshes with one or both attributes taken away.                          *)

\* the triangles without the data of the missing attributes
Strip(tris, missing) ==
    [i \in 1..Len(tris) |->
        [p |-> IF "position" \in missing THEN <<>> ELSE tris[i].p,
         n |-> IF "normal" \in missing THEN <<>> ELSE tris[i].n]]

GeometryLacking(tris, missing) ==
    [Geometry(tris) EXCEPT !.attributes = {"position", "normal"} \ missing]

Malformed ==
    { [tris |-> Strip(tris, missing), missing |-> missing] :
        tris \in Meshes,
        missing \in {{"position"}, {"normal"}, {"position", "normal"}} }

\* new OrientationAnalyzer(geometry), for every malformed geometry
InitMalformed ==
    /\ \E m \in Malformed :
          /\ loaded = m.tris
          /\ geometry = GeometryLacking(m.tris, m.missing)
    /\ features = NoFeatures
    /\ results = <<>>
    /\ prevResults = <<>>
    /\ calls = 0
    /\ thrown = "none"
    /\ fitBox = [min |-> <<0, 0, 0>>, max |-> <<0, 0, 0>>]
    /\ fitResult = [canFit |-> FALSE, offsetX |-> DZero, offsetZ |-> DZero]
    /\ fitDone = FALSE
    /\ VolumeIdle
    /\ UploadIdle
    /\ SessionIdle

NextMalformed == AnalyzeOrientation

SpecMalformed == InitMalformed /\ [][NextMalformed]_vars

---------------------------------------------------------------------------
(* The fit checker's inputs: bounding boxes whose corners are multiples of *)
(* half a millimetre.  On X and Z a box starts at a multiple of 75 mm up   *)
(* to MaxShift steps from the origin and has one of the listed sizes, or   *)
(* is centred on the origin.                                               *)

MaxShift == 3

\* sizes in half millimetres: 0.5, 20, 255.5, 256, 256.5 and 300 mm
FitSizes == {1, 40, 511, 512, 513, 600}

\* half sizes of the centred ranges in half millimetres: 1, 20, 255, 256, 257 mm
FitHalfSizes == {1, 20, 255, 256, 257}

\* lower edges in half millimetres, 154 mm apart
FitStarts == {308 * k : k \in (-MaxShift)..MaxShift}

HorizontalRanges ==
    {<<lo, lo + sz>> : lo \in FitStarts, sz \in FitSizes}
        \cup {<<-h, h>> : h \in FitHalfSizes}

VerticalRanges == {<<0, 40>>, <<-20, 20>>, <<-600, -88>>, <<0, 513>>}

FitBoxes ==
    {[min |-> <<x[1], y[1], z[1]>>, max |-> <<x[2], y[2], z[2]>>] :
        x \in HorizontalRanges, y \in VerticalRanges, z \in HorizontalRanges}

NoFit == [canFit |-> FALSE, offsetX |-> DZero, offsetZ |-> DZero]

InitFit ==
    /\ fitBox \in FitBoxes
    /\ fitResult = NoFit
    /\ fitDone = FALSE
    /\ loaded = <<>>
    /\ geometry = Geometry(<<>>)
    /\ features = NoFeatures
    /\ results = <<>>
    /\ prevResults = <<>>
    /\ calls = 0
    /\ thrown = "none"
    /\ VolumeIdle
    /\ UploadIdle
    /\ SessionIdle

\* tryToFitModelOnBuildPlate(size, boundingBox.min, boundingBox.max, scale)
TryToFit ==
    /\ ~fitDone
    /\ fitResult' = tryToFitModelOnBuildPlate(boxSize(fitBox), fitBox.min, fitBox.max)
    /\ fitDone' = TRUE
    /\ UNCHANGED <<fitBox, analyzerVars, volumeVars, uploadVars, sessionVars>>

NextFit == TryToFit

SpecFit == InitFit /\ [][NextFit]_vars

---------------------------------------------------------------------------
(* The files handed to calculateVolume: closed, consistently wound meshes  *)
(* (a cube, a tetrahedron, an octahedron), scaled, placed at an origin and *)
(* wound outwards or inwards, and the same mesh after a rotation and a     *)
(* translation that keep the coordinates integers.                         *)

MaxMove == 3

unitTetrahedron ==
    << Facet(<<0, 0, -1>>, <<0,0,0>>, <<0,1,0>>, <<1,0,0>>),
       Facet(<<0, -1, 0>>, <<0,0,0>>, <<1,0,0>>, <<0,0,1>>),
       Facet(<<-1, 0, 0>>, <<0,0,0>>, <<0,0,1>>, <<0,1,0>>),
       Facet(<<1, 1, 1>>,  <<1,0,0>>, <<0,1,0>>, <<0,0,1>>) >>

octants ==
    << <<1,1,1>>, <<-1,1,1>>, <<1,-1,1>>, <<1,1,-1>>,
       <<-1,-1,1>>, <<-1,1,-1>>, <<1,-1,-1>>, <<-1,-1,-1>> >>

\* the octahedron with corners on the axes at distance 1
unitOctahedron ==
    [i \in 1..8 |->
        LET o == octants[i]
            a == <<o[1], 0, 0>>
            b == <<0, o[2], 0>>
            c == <<0, 0, o[3]>>
        IN  IF o[1] * o[2] * o[3] > 0 THEN Facet(o, a, b, c) ELSE Facet(o, a, c, b)]

Template(kind) ==
    IF kind = "cube" THEN unitCube
    ELSE IF kind = "tetrahedron" THEN unitTetrahedron
    ELSE unitOctahedron

\* the template scaled by s, moved to origin o, and wound outwards or inwards
Place(template, s, o, outward) ==
    [i \in 1..Len(template) |->
        LET t == template[i]
            p(v) == [k \in 1..3 |-> o[k] + s * v[k]]
        IN  IF outward THEN Facet(t.normal, p(t.v1), p(t.v2), p(t.v3))
            ELSE Facet([k \in 1..3 |-> -t.normal[k]], p(t.v1), p(t.v3), p(t.v2))]

\* rotations as integer matrices over a denominator: the identity, quarter
\* turns about the three axes, and turns by the angle of the 3-4-5 triangle
\* about z and about x
Rotations ==
    { [m |-> << <<1,0,0>>, <<0,1,0>>, <<0,0,1>> >>, d |-> 1],
      [m |-> << <<0,-1,0>>, <<1,0,0>>, <<0,0,1>> >>, d |-> 1],
      [m |-> << <<1,0,0>>, <<0,0,-1>>, <<0,1,0>> >>, d |-> 1],
      [m |-> << <<0,0,1>>, <<0,1,0>>, <<-1,0,0>> >>, d |-> 1],
      [m |-> << <<3,-4,0>>, <<4,3,0>>, <<0,0,5>> >>, d |-> 5],
      [m |-> << <<5,0,0>>, <<0,4,-3>>, <<0,3,4>> >>, d |-> 5] }

Moves ==
    { <<0, 0, 0>>, <<MaxMove, 0, 0>>, <<-MaxMove, -MaxMove, -1>>,
      <<0, 2 * MaxMove + 1, -2>> }

timesMatrix(m, v) == [k \in 1..3 |-> dot(m[k], v)]

\* an integer vector divided by the greatest common divisor of its entries
Primitive(v) ==
    LET g == GCD(GCD(Abs(v[1]), Abs(v[2])), Abs(v[3]))
    IN  IF g = 0 THEN v ELSE [k \in 1..3 |-> v[k] \div g]

\* the rotation keeps every corner of the file on integer coordinates
KeepsIntegers(r, f) ==
    \A i \in 1..Len(f) : \A v \in {f[i].v1, f[i].v2, f[i].v3} :
        \A k \in 1..3 : timesMatrix(r.m, v)[k] % r.d = 0

\* the mesh rotated by r, then translated by t
Transform(f, r, t) ==
    [i \in 1..Len(f) |->
        LET p(v) == [k \in 1..3 |-> timesMatrix(r.m, v)[k] \div r.d + t[k]]
        IN  Facet(Primitive(timesMatrix(r.m, f[i].normal)),
                  p(f[i].v1), p(f[i].v2), p(f[i].v3))]

ShapeKinds == {"cube", "tetrahedron", "octahedron"}

ShapeEdges == {1, 2, 5}

ShapeOrigins == { <<0, 0, 0>>, <<-3, -3, -1>>, <<5, -10, 0>>, <<1, 2, 3>> }

InitVolume ==
    /\ \E kind \in ShapeKinds, s \in ShapeEdges, o \in ShapeOrigins,
          outward \in BOOLEAN, r \in Rotations, t \in Moves :
          /\ shape = [kind |-> kind, edge |-> s]
          /\ stlFile = Place(Template(kind), s, o, outward)
          /\ KeepsIntegers(r, stlFile)
          /\ movedFile = Transform(stlFile, r, t)
    /\ volume = NoVolume
    /\ computed = {}
    /\ loaded = <<>>
    /\ geometry = Geometry(<<>>)
    /\ features = NoFeatures
    /\ results = <<>>
    /\ prevResults = <<>>
    /\ calls = 0
    /\ thrown = "none"
    /\ fitBox = [min |-> <<0, 0, 0>>, max |-> <<0, 0, 0>>]
    /\ fitResult = NoFit
    /\ fitDone = FALSE
    /\ UploadIdle
    /\ SessionIdle

\* calculateVolume(file, "x.stl"), for the file or for the moved file
CalculateVolume ==
    \E w \in {"file", "moved"} \ computed :
        /\ volume' = [volume EXCEPT
                         ![w] = calculateVolume(IF w = "file" THEN stlFile ELSE movedFile)]
        /\ computed' = computed \cup {w}
        /\ UNCHANGED <<shape, stlFile, movedFile, analyzerVars, fitVars, uploadVars,
                       sessionVars>>

NextVolume == CalculateVolume

SpecVolume == InitVolume /\ [][NextVolume]_vars

---------------------------------------------------------------------------
(* The uploads handed to calculateVolume: an STL file of one mesh, a 3MF   *)
(* object of up to MaxMeshes meshes, each a unit cube or tetrahedron wound *)
(* outwards or inwards and placed by its world matrix, or a mesh without a *)
(* position attribute; and a file of another format.                       *)

MaxMeshes == 2

MeshLib ==
    << Mesh(FALSE, <<>>, <<0, 0, 0>>),
       Mesh(TRUE, Place(unitCube, 1, <<0, 0, 0>>, TRUE), <<0, 0, 0>>),
       Mesh(TRUE, Place(unitCube, 1, <<0, 0, 0>>, FALSE), <<0, 0, 0>>),
       Mesh(TRUE, Place(unitCube, 1, <<0, 0, 0>>, TRUE), <<-3, -3, -1>>),
       Mesh(TRUE, Place(unitCube, 1, <<0, 0, 0>>, FALSE), <<-3, -3, -1>>),
       Mesh(TRUE, Place(unitTetrahedron, 1, <<0, 0, 0>>, TRUE), <<0, 0, 0>>),
       Mesh(TRUE, Place(unitTetrahedron, 1, <<0, 0, 0>>, FALSE), <<0, 0, 0>>),
       Mesh(TRUE, Place(unitTetrahedron, 1, <<0, 0, 0>>, TRUE), <<-3, -3, -1>>),
       Mesh(TRUE, Place(unitTetrahedron, 1, <<0, 0, 0>>, FALSE), <<-3, -3, -1>>) >>

\* STLLoader.parse always sets the position attribute, and an STL file has
\* no world matrix: its facets are where the file puts them
StlUploads ==
    { [format |-> "stl",
       meshes |-> << Mesh(TRUE, applyMatrixWorld(MeshLib[i]), <<0, 0, 0>>) >>] :
         i \in 2..Len(MeshLib) }

ThreeMFUploads ==
    { [format |-> "3mf", meshes |-> [k \in 1..Len(ix) |-> MeshLib[ix[k]]]] :
         ix \in SeqsUpTo(1..Len(MeshLib), MaxMeshes) }

OtherUploads == { [format |-> "obj", meshes |-> <<>>] }

\* the same file with the winding of every triangle reversed
ReverseWinding(file) ==
    [file EXCEPT !.meshes =
        [k \in 1..Len(file.meshes) |->
            [file.meshes[k] EXCEPT !.facets =
                [i \in 1..Len(file.meshes[k].facets) |->
                    LET f == file.meshes[k].facets[i]
                    IN  Facet([j \in 1..3 |-> -f.normal[j]], f.v1, f.v3, f.v2)]]]]

\* no analyzer has been constructed
AnalyzerIdle ==
    /\ loaded = <<>>
    /\ geometry = Geometry(<<>>)
    /\ features = NoFeatures
    /\ results = <<>>
    /\ prevResults = <<>>
    /\ calls = 0
    /\ thrown = "none"

InitUpload ==
    /\ upload \in StlUploads \cup ThreeMFUploads \cup OtherUploads
    /\ promise = [w \in {"upload", "reversed"} |-> pending]
    /\ loaded = <<>>
    /\ geometry = Geometry(<<>>)
    /\ features = NoFeatures
    /\ results = <<>>
    /\ prevResults = <<>>
    /\ calls = 0
    /\ thrown = "none"
    /\ fitBox = [min |-> <<0, 0, 0>>, max |-> <<0, 0, 0>>]
    /\ fitResult = NoFit
    /\ fitDone = FALSE
    /\ VolumeIdle
    /\ SessionIdle

\* calculateVolume(file, fileName) settles its promise, for the upload or
\* for the upload with the windings reversed
SettleVolume ==
    \E w \in {"upload", "reversed"} :
        /\ promise[w].state = "pending"
        /\ \E r \in {calculateVolumePromise(IF w = "upload" THEN upload
                                             ELSE ReverseWinding(upload))} :
               promise' = [promise EXCEPT ![w] = r]
        /\ UNCHANGED <<upload, analyzerVars, fitVars, volumeVars, sessionVars>>

NextUpload == SettleVolume

SpecUpload == InitUpload /\ [][NextUpload]_vars

---------------------------------------------------------------------------
(* The page: the store, FileUploader, PrintCalculator and the ModelViewer  *)
(* instances it creates.  A file is known by the number of its upload; its *)
(* format, whether its loader succeeds and whether it exceeds the build    *)
(* volume as loaded are what the page's control flow depends on.  React    *)
(* renders after the handler that changed state has returned, so a handler *)
(* together with the renders and effects it causes is one step.            *)

MaxUploads == 2

\* FileUploader accepts names ending in .stl or .3mf only
SessionKinds ==
    { [format |-> "stl", ok |-> TRUE, tooLarge |-> FALSE],
      [format |-> "stl", ok |-> TRUE, tooLarge |-> TRUE],
      [format |-> "stl", ok |-> FALSE, tooLarge |-> FALSE],
      [format |-> "3mf", ok |-> TRUE, tooLarge |-> FALSE],
      [format |-> "3mf", ok |-> FALSE, tooLarge |-> FALSE] }

NoModelData == [kind |-> "null", file |-> 0]

\* a ModelViewer as its useRef and useState calls and the scene effect
\* leave it: the file last loaded, originalModelDataRef,
\* modelSizeReportedRef, isAnalyzing, currentOrientation, the pending 500 ms
\* and 2000 ms timers, the files ThreeMFLoader is still loading, and the
\* onModelSize calls made since the last load
NewViewer ==
    [file |-> 0, originalModelDataRef |-> NoModelData,
     modelSizeReportedRef |-> FALSE, isAnalyzing |-> FALSE,
     currentOrientation |-> "original",
     startTimers |-> 0, analysisTimers |-> 0, loading |-> {}, reports |-> 0]

\* the load effect that leaves modelSizeReportedRef as it is after reporting
loadEffectLeavingFlag(w, n, kind) ==
    LET reset == [w EXCEPT !.file = n, !.modelSizeReportedRef = FALSE,
                           !.isAnalyzing = TRUE,
                           !.currentOrientation = "original",
                           !.originalModelDataRef = NoModelData,
                           !.reports = 0]
    IN  IF kind.format = "stl"
        THEN (IF kind.ok
              THEN [reset EXCEPT
                       !.originalModelDataRef = [kind |-> "geometry", file |-> n],
                       !.reports = 1,
                       !.startTimers = @ + 1]
              ELSE [reset EXCEPT !.isAnalyzing = FALSE])
        ELSE IF kind.format = "3mf"
        THEN [reset EXCEPT !.loading = @ \cup {n}]
        ELSE [reset EXCEPT !.isAnalyzing = FALSE]

\* the effect on [file, fileName] with file, fileName and the scene present.
\* An STL file is parsed at once: the geometry's clone is stored, the size is
\* reported (modelSizeReportedRef was reset just above) and the start timer
\* set; a parse error is caught.  A 3MF file is handed to the loader
loadEffect(w, n, kind) ==
    LET reset == [w EXCEPT !.file = n, !.modelSizeReportedRef = FALSE,
                           !.isAnalyzing = TRUE,
                           !.currentOrientation = "original",
                           !.originalModelDataRef = NoModelData,
                           !.reports = 0]
    IN  IF kind.format = "stl"
        THEN (IF kind.ok
              THEN [reset EXCEPT
                       !.originalModelDataRef = [kind |-> "geometry", file |-> n],
                       !.modelSizeReportedRef = TRUE,
                       !.reports = 1,
                       !.startTimers = @ + 1]
              ELSE [reset EXCEPT !.isAnalyzing = FALSE])
        ELSE IF kind.format = "3mf"
        THEN [reset EXCEPT !.loading = @ \cup {n}]
        ELSE [reset EXCEPT !.isAnalyzing = FALSE]

\* the size the load effect hands to onModelSize while it runs
dimensionsOf(n, kind) == [file |-> n, isTooLarge |-> kind.tooLarge]

\* a new key that leaves the instance in place
mountViewerInPlace(vs) == vs

\* <ModelViewer key={viewerKey}> with a new key: the mounted instance is
\* unmounted, its state is gone, and a new instance is mounted
mountViewer(vs) ==
    Append([i \in 1..Len(vs) |->
               [vs[i] EXCEPT !.isAnalyzing = FALSE,
                             !.currentOrientation = "original"]],
           NewViewer)

\* the body of analyzeModelOrientation without the timer's callback
analyzeModelOrientation(w) ==
    IF w.originalModelDataRef = NoModelData
    THEN [w EXCEPT !.startTimers = @ - 1]
    ELSE [w EXCEPT !.startTimers = @ - 1, !.isAnalyzing = TRUE,
                   !.analysisTimers = @ + 1]

\* applyOrientation reports the size when it has a geometry and
\* modelSizeReportedRef is not set
appliesAndReports(w, threw) ==
    /\ w.originalModelDataRef.kind = "geometry"
    /\ ~threw
    /\ ~w.modelSizeReportedRef

\* the callback that leaves isAnalyzing alone once the analysis has run
analysisCallbackLeavingOverlay(w, threw) ==
    IF w.originalModelDataRef.kind # "geometry"
    THEN [w EXCEPT !.analysisTimers = @ - 1, !.isAnalyzing = FALSE]
    ELSE [w EXCEPT !.analysisTimers = @ - 1,
                   !.currentOrientation = IF threw THEN @ ELSE "custom",
                   !.reports = IF appliesAndReports(w, threw) THEN @ + 1 ELSE @]

\* the callback analyzeModelOrientation hands to setTimeout: without a stored
\* geometry it only clears isAnalyzing; else the analyzer runs, and unless it
\* threw the best result is applied; then isAnalyzing is cleared
analysisCallback(w, threw) ==
    IF w.originalModelDataRef.kind # "geometry"
    THEN [w EXCEPT !.analysisTimers = @ - 1, !.isAnalyzing = FALSE]
    ELSE [w EXCEPT !.analysisTimers = @ - 1, !.isAnalyzing = FALSE,
                   !.currentOrientation = IF threw THEN @ ELSE "custom",
                   !.reports = IF appliesAndReports(w, threw) THEN @ + 1 ELSE @]

\* the instance the page shows, 0 when PrintCalculator renders nothing
Mounted == Len(viewers)

\* setState of an unmounted instance does nothing
commit(v, w) ==
    IF v = Mounted THEN w
    ELSE [w EXCEPT !.isAnalyzing = viewers[v].isAnalyzing,
                   !.currentOrientation = viewers[v].currentOrientation]

\* await continues in a microtask, before any timer, loader callback or
\* input event: while the promise of an STL file, which settles inside
\* calculateVolume, is awaited nothing else runs
NoMicrotask == \A i \in 1..Len(inflight) : ~inflight[i].settled

\* FileUploader.handleFiles and reader.onload for an accepted file, and the
\* renders that follow: setModelFile and setFileName each hand the store's
\* state to the listeners; PrintCalculator renders with the new file and
\* name; the load effect of the mounted ModelViewer (mounted by this render
\* at the first upload) runs with them, then the reset effect of
\* PrintCalculator; the new viewerKey mounts a new ModelViewer, whose load
\* effect runs in turn
Upload ==
    /\ Len(uploaded) < MaxUploads
    /\ NoMicrotask
    /\ \E kind \in SessionKinds :
         LET n == Len(uploaded) + 1
             present == IF viewers = <<>> THEN <<NewViewer>> ELSE viewers
             old == Len(present)
             rendered == [present EXCEPT ![old] = loadEffect(present[old], n, kind)]
             remounted == mountViewer(rendered)
             new == Len(remounted)
             after == [remounted EXCEPT ![new] = loadEffect(remounted[new], n, kind)]
         IN  /\ uploaded' = Append(uploaded, kind)
             /\ modelFile' = n
             /\ fileName' = n
             /\ published' = published \cup
                    { [modelFile |-> n, fileName |-> fileName],
                      [modelFile |-> n, fileName |-> n] }
             /\ estimate' = 0
             /\ viewerKey' = viewerKey + 1
             /\ viewers' = after
             /\ modelDimensions' =
                    IF after[new].reports > 0 THEN dimensionsOf(n, kind)
                    ELSE NoDimensions
    /\ UNCHANGED <<isCalculating, inflight>>
    /\ UNCHANGED <<analyzerVars, fitVars, volumeVars, uploadVars, scenes>>

\* the 3MF loader calls onLoad or onError of one of its pending loads.
\* onLoad stores the object, reports the size unless modelSizeReportedRef is
\* set, and sets the start timer; onError clears isAnalyzing
LoaderSettles ==
    /\ NoMicrotask
    /\ \E v \in 1..Len(viewers) : \E n \in viewers[v].loading :
         LET w == viewers[v]
             reports == ~w.modelSizeReportedRef
             loadedObject ==
                 [w EXCEPT !.loading = @ \ {n},
                           !.originalModelDataRef = [kind |-> "object3D", file |-> n],
                           !.modelSizeReportedRef = TRUE,
                           !.reports = IF reports THEN @ + 1 ELSE @,
                           !.startTimers = @ + 1]
             failed == [w EXCEPT !.loading = @ \ {n}, !.isAnalyzing = FALSE]
         IN  IF uploaded[n].ok
             THEN /\ viewers' = [viewers EXCEPT ![v] = commit(v, loadedObject)]
                  /\ modelDimensions' =
                         IF reports THEN dimensionsOf(n, uploaded[n])
                         ELSE modelDimensions
             ELSE /\ viewers' = [viewers EXCEPT ![v] = commit(v, failed)]
                  /\ UNCHANGED modelDimensions
    /\ UNCHANGED <<modelFile, fileName, published, uploaded, estimate,
                   isCalculating, viewerKey, inflight>>
    /\ UNCHANGED <<analyzerVars, fitVars, volumeVars, uploadVars, scenes>>

\* a 500 ms timer of some instance fires: analyzeModelOrientation()
StartTimerFires ==
    /\ NoMicrotask
    /\ \E v \in 1..Len(viewers) :
         /\ viewers[v].startTimers > 0
         /\ viewers' = [viewers EXCEPT ![v] = commit(v, analyzeModelOrientation(viewers[v]))]
    /\ UNCHANGED <<modelFile, fileName, published, uploaded, estimate,
                   isCalculating, viewerKey, modelDimensions, inflight>>
    /\ UNCHANGED <<analyzerVars, fitVars, volumeVars, uploadVars, scenes>>

\* a 2000 ms timer of some instance fires; the analyzer may throw
AnalysisTimerFires ==
    /\ NoMicrotask
    /\ \E v \in 1..Len(viewers) : \E threw \in BOOLEAN :
         LET w == viewers[v]
         IN  /\ w.analysisTimers > 0
             /\ viewers' = [viewers EXCEPT ![v] = commit(v, analysisCallback(w, threw))]
             /\ modelDimensions' =
                    IF appliesAndReports(w, threw)
                    THEN dimensionsOf(w.originalModelDataRef.file,
                                      uploaded[w.originalModelDataRef.file])
                    ELSE modelDimensions
    /\ UNCHANGED <<modelFile, fileName, published, uploaded, estimate,
                   isCalculating, viewerKey, inflight>>
    /\ UNCHANGED <<analyzerVars, fitVars, volumeVars, uploadVars, scenes>>

\* a click on the Calculate button, which is rendered once a file is in the
\* store and disabled while isCalculating or isTooLarge: handleCalculate up
\* to its await.  For an STL file calculateVolume has settled its promise
\* when it returns
HandleCalculate ==
    /\ modelFile # 0
    /\ ~isCalculating
    /\ ~modelDimensions.isTooLarge
    /\ NoMicrotask
    /\ isCalculating' = TRUE
    /\ inflight' = Append(inflight,
           [file |-> modelFile, settled |-> uploaded[fileName].format = "stl"])
    /\ UNCHANGED <<modelFile, fileName, published, uploaded, estimate,
                   viewerKey, modelDimensions, viewers>>
    /\ UNCHANGED <<analyzerVars, fitVars, volumeVars, uploadVars, scenes>>

\* the rest of handleCalculate that never clears isCalculating when
\* calculateVolume rejects
afterAwaitWithoutFinally(call, kind) ==
    IF kind.ok THEN [estimate |-> call.file, isCalculating |-> FALSE]
    ELSE [estimate |-> estimate, isCalculating |-> isCalculating]

\* handleCalculate after its await: the four values are set from the volume
\* when the promise resolved, the error is logged when it rejected, and
\* finally isCalculating is cleared
afterAwait(call, kind) ==
    IF kind.ok THEN [estimate |-> call.file, isCalculating |-> FALSE]
    ELSE [estimate |-> estimate, isCalculating |-> FALSE]

\* the promise a handleCalculate call awaits has settled and the call goes on
CalculateSettles ==
    /\ \E i \in 1..Len(inflight) :
         /\ inflight[i].settled \/ NoMicrotask
         /\ \E r \in {afterAwait(inflight[i], uploaded[inflight[i].file])} :
              /\ estimate' = r.estimate
              /\ isCalculating' = r.isCalculating
         /\ inflight' = [k \in 1..(Len(inflight) - 1) |->
                            IF k < i THEN inflight[k] ELSE inflight[k + 1]]
    /\ UNCHANGED <<modelFile, fileName, published, uploaded, viewerKey,
                   modelDimensions, viewers>>
    /\ UNCHANGED <<analyzerVars, fitVars, volumeVars, uploadVars, scenes>>

InitSession ==
    /\ SessionIdle
    /\ AnalyzerIdle
    /\ fitBox = [min |-> <<0, 0, 0>>, max |-> <<0, 0, 0>>]
    /\ fitResult = NoFit
    /\ fitDone = FALSE
    /\ VolumeIdle
    /\ UploadIdle

NextSession ==
    \/ Upload
    \/ LoaderSettles
    \/ StartTimerFires
    \/ AnalysisTimerFires
    \/ HandleCalculate
    \/ CalculateSettles

SpecSession == InitSession /\ [][NextSession]_vars

\* timers fire and the loader and calculateVolume call back: the event loop
\* runs every task that is due.  A due task waits only while a microtask is
\* pending, so however often the user clicks, it is run: strong fairness
SpecSessionFair ==
    /\ SpecSession
    /\ SF_vars(LoaderSettles)
    /\ SF_vars(StartTimerFires)
    /\ SF_vars(AnalysisTimerFires)
    /\ WF_vars(CalculateSettles)

---------------------------------------------------------------------------
(* The ModelViewer instances with the geometry they hold, for STL files:   *)
(* what the load effect stores, shows and reports, what the analysis timer *)
(* applies, and what PrintCalculator is told.                              *)

MaxLoads == 2

\* a slanted pair of faces with normal (-3, -4, 0): 260 by 230 by 200 mm as
\* loaded, the first face a hole candidate
slantedPair(s) ==
    << Tri(Vec(26 * s, -7 * s, -20 * s), Vec(-14 * s, 23 * s, -20 * s),
           Vec(6 * s, 8 * s, 20 * s), Vec(-3, -4, 0)),
       Tri(Vec(-26 * s, 7 * s, 20 * s), Vec(14 * s, -23 * s, 20 * s),
           Vec(-6 * s, -8 * s, -20 * s), Vec(-3, -4, 0)) >>

\* the STL files loaded: the slanted pair in three sizes, two walls, and a
\* single face
ViewerMeshes ==
    { slantedPair(1), slantedPair(5), slantedPair(10),
      <<TriangleLib[5], TriangleLib[6]>>,
      <<TriangleLib[1]>> }

\* new OrientationAnalyzer(geometry).analyzeOrientation(): the result
\* depends on the geometry alone, so for the geometry of an uploaded file it
\* is the one worked out when the file was uploaded
analysisResult(g) ==
    IF \E n \in 1..Len(uploaded) : uploaded[n].tris = g.tris
    THEN uploaded[CHOOSE n \in 1..Len(uploaded) : uploaded[n].tris = g.tris].analysis
    ELSE analyzeOrientation(g)

\* a vector of millimetres in half millimetres
halfMillimetres(v) == << (2 * v[1].n) \div v[1].d, (2 * v[2].n) \div v[2].d,
                         (2 * v[3].n) \div v[3].d >>

\* geometry.computeBoundingBox()
withBoundingBox(g) ==
    Bind(computeBoundingBox(g.tris), LAMBDA box : [g EXCEPT !.boundingBox = box])

\* the mesh made of a geometry whose bounding box has been computed: the fit
\* check on the box, the material chosen by its verdict, and
\* mesh.position.set(offsetX, -min.y * scale, offsetZ)
meshOnBuildPlate(g) ==
    Bind2(halfMillimetres(g.boundingBox.min), halfMillimetres(g.boundingBox.max),
          LAMBDA lo, hi :
        Bind(<< hi[1] - lo[1], hi[2] - lo[2], hi[3] - lo[3] >>, LAMBDA size :
            Bind(tryToFitModelOnBuildPlate(size, lo, hi), LAMBDA fit :
                [geometry |-> g,
                 size |-> size,
                 canFit |-> fit.canFit,
                 position |-> << fit.offsetX, timesScale(-lo[2]), fit.offsetZ >>])))

\* a ModelViewer as mounted: originalModelDataRef, modelRef and the rotation
\* last applied are <<>> when null
NewScene ==
    [file |-> <<>>, originalModelDataRef |-> <<>>, modelRef |-> <<>>,
     modelSizeReportedRef |-> FALSE, startTimers |-> 0, analysisTimers |-> 0,
     rotation |-> <<>>, applyCalls |-> 0]

\* the load effect for an STL file: the parsed geometry's clone is stored,
\* the parsed geometry gets its bounding box and is shown, the size is
\* reported and the start timer set
loadStl(w, m) ==
    Bind(meshOnBuildPlate(withBoundingBox(Geometry(m))), LAMBDA mesh :
        [w EXCEPT !.file = m,
                  !.originalModelDataRef = << Geometry(m) >>,
                  !.modelRef = << mesh >>,
                  !.modelSizeReportedRef = TRUE,
                  !.startTimers = @ + 1,
                  !.rotation = <<>>,
                  !.applyCalls = 0])

\* applyOrientation rotating the stored geometry itself
applyOrientationInPlace(stored, rotation) ==
    Bind(geometryApplyMatrix4(stored, makeRotationFromEuler(rotation)), LAMBDA rotated :
        Bind(meshOnBuildPlate(withBoundingBox(rotated)), LAMBDA mesh :
            [stored |-> rotated, mesh |-> mesh]))

\* applyOrientation(rotation) on a stored geometry: a clone of it is rotated
\* and shown; the stored geometry is as before
applyOrientation(stored, rotation) ==
    Bind(geometryApplyMatrix4(stored, makeRotationFromEuler(rotation)), LAMBDA rotated :
        Bind(meshOnBuildPlate(withBoundingBox(rotated)), LAMBDA mesh :
            [stored |-> stored, mesh |-> mesh]))

\* results.length > 0 after an analysis that did not throw
hasBest(r) == r.thrown = "none" /\ r.results # <<>>

\* the instance after the timer callback of analyzeModelOrientation: r is
\* what the analyzer returned for a clone of the stored geometry and applied
\* what applyOrientation(results[0].rotation) left
analyzedAndApplied(w, r, applied) ==
    IF ~hasBest(r)
    THEN [w EXCEPT !.analysisTimers = @ - 1]
    ELSE [w EXCEPT !.analysisTimers = @ - 1,
                   !.originalModelDataRef = << applied.stored >>,
                   !.modelRef = << applied.mesh >>,
                   !.rotation = << r.results[1].rotation >>,
                   !.applyCalls = @ + 1]

\* what onModelSize hands to PrintCalculator for the mesh the load shows
sizeReport(n, mesh) ==
    [file |-> n, size |-> mesh.size, isTooLarge |-> ~mesh.canFit]

\* an upload of an STL file and the renders that follow, as in Upload: the
\* mounted ModelViewer loads the file, the reset effect clears
\* modelDimensions and changes the key, and the ModelViewer mounted under
\* the new key loads the file and reports its size
UploadModel ==
    /\ Len(uploaded) < MaxLoads
    /\ \E m \in ViewerMeshes :
       \E analysis \in {analyzeOrientation(Geometry(m))} :
       \E new \in {LET present == IF scenes = <<>> THEN <<NewScene>> ELSE scenes
                        mounted == Append(present, NewScene)
                    IN  [k \in 1..Len(mounted) |->
                            IF k >= Len(present) THEN loadStl(mounted[k], m)
                            ELSE mounted[k]]} :
         LET n == Len(uploaded) + 1
         IN  /\ uploaded' = Append(uploaded, [tris |-> m, analysis |-> analysis])
             /\ modelFile' = n
             /\ fileName' = n
             /\ published' = published \cup
                    { [modelFile |-> n, fileName |-> fileName],
                      [modelFile |-> n, fileName |-> n] }
             /\ viewerKey' = viewerKey + 1
             /\ scenes' = new
             /\ modelDimensions' = sizeReport(n, new[Len(new)].modelRef[1])
    /\ UNCHANGED <<estimate, isCalculating, inflight, viewers>>
    /\ UNCHANGED <<analyzerVars, fitVars, volumeVars, uploadVars>>

\* a 500 ms timer of an instance fires: analyzeModelOrientation() finds the
\* stored geometry and sets the 2000 ms timer
SceneStartTimerFires ==
    /\ \E v \in 1..Len(scenes) :
         /\ scenes[v].startTimers > 0
         /\ scenes' = [scenes EXCEPT ![v] =
                [@ EXCEPT !.startTimers = @ - 1,
                          !.analysisTimers =
                              IF scenes[v].originalModelDataRef = <<>> THEN @
                              ELSE @ + 1]]
    /\ UNCHANGED <<modelFile, fileName, published, uploaded, estimate,
                   isCalculating, viewerKey, modelDimensions, inflight, viewers>>
    /\ UNCHANGED <<analyzerVars, fitVars, volumeVars, uploadVars>>

\* a 2000 ms timer of an instance fires: the analyzer runs on a clone of the
\* stored geometry and the first result is applied.  applyOrientation would
\* report the size if modelSizeReportedRef were clear
SceneAnalysisTimerFires ==
    /\ \E v \in 1..Len(scenes) :
         /\ scenes[v].analysisTimers > 0
         /\ \E r \in {analysisResult(scenes[v].originalModelDataRef[1])} :
            \E applied \in {IF hasBest(r)
                             THEN applyOrientation(scenes[v].originalModelDataRef[1],
                                                   r.results[1].rotation)
                             ELSE [stored |-> scenes[v].originalModelDataRef[1],
                                   mesh |-> scenes[v].modelRef[1]]} :
            \E w \in {analyzedAndApplied(scenes[v], r, applied)} :
              /\ scenes' = [scenes EXCEPT ![v] = w]
              /\ modelDimensions' =
                     IF w.applyCalls > scenes[v].applyCalls
                        /\ ~scenes[v].modelSizeReportedRef
                     THEN sizeReport(modelFile, w.modelRef[1])
                     ELSE modelDimensions
    /\ UNCHANGED <<modelFile, fileName, published, uploaded, estimate,
                   isCalculating, viewerKey, inflight, viewers>>
    /\ UNCHANGED <<analyzerVars, fitVars, volumeVars, uploadVars>>

InitViewer ==
    /\ SessionIdle
    /\ AnalyzerIdle
    /\ fitBox = [min |-> <<0, 0, 0>>, max |-> <<0, 0, 0>>]
    /\ fitResult = NoFit
    /\ fitDone = FALSE
    /\ VolumeIdle
    /\ UploadIdle

NextViewer ==
    \/ UploadModel
    \/ SceneStartTimerFires
    \/ SceneAnalysisTimerFires

SpecViewer == InitViewer /\ [][NextViewer]_vars

---------------------------------------------------------------------------
(* Claims about analyzeOrientation, checked under SpecAnalyzer             *)

\* C1: every call returns 6 or 7 results, and 7 exactly when a functional
\* direction was detected and it is not degenerate, that is, it has a
\* horizontal component, so that its cross product with world up is not
\* zero (a direction straight up, straight down or of length zero is
\* degenerate)
C1_SixOrSevenResults ==
    calls > 0 =>
        /\ Len(results) \in {6, 7}
        /\ Len(results) = 7 <=>
             /\ features.hasFunctionalDirection
             /\ \/ features.functionalDirection[1] # Zero
                \/ features.functionalDirection[3] # Zero

C1_Witness == calls > 0 /\ Len(results) = 7

\* C2: the returned list is sorted non-increasing by score: each result's
\* score is greater than or equal to the next one's
C2_SortedByScore ==
    \A i \in 1..(Len(results) - 1) : RGe(results[i].score, results[i + 1].score)

\* C3: a second call on the same analyzer returns the list the first call
\* returned: same length, same order, same fields at every position
C3_SecondCallIdentical == calls >= 2 => results = prevResults

C3_Witness == calls >= 2 /\ Len(loaded) = MaxTris /\ features.hasHoles

\* C4: after any number of calls the analyzer's geometry has the vertex
\* positions and normals it was constructed with, and the feature detection
\* result is the one detection yields on that geometry
C4_InputsNotMutated ==
    calls > 0 =>
        /\ geometry.tris = loaded
        /\ features = detectFeatures(Geometry(loaded))

C4_Witness ==
    /\ calls > 0
    /\ Len(loaded) > 0
    /\ Len(results) = 7
    /\ ~geometry.boundingBox.isNull

\* C5: when no triangle is classified as a hole candidate, every returned
\* result has quality exactly 1/2
C5_NeutralQualityWithoutHoles ==
    (calls > 0 /\ ~features.hasHoles) =>
        \A i \in 1..Len(results) : results[i].quality = Q(1, 2)

C5_Witness == calls > 0 /\ ~features.hasHoles /\ Len(loaded) > 0

\* the outward normals of the six faces of an axis-aligned cube
cubeFaceNormals ==
    { Vec(1, 0, 0), Vec(-1, 0, 0), Vec(0, 1, 0), Vec(0, -1, 0),
      Vec(0, 0, 1), Vec(0, 0, -1) }

\* the cube faces the orientation turns to face down (toward -Y)
facesDown(orientation) ==
    { n \in cubeFaceNormals :
        applyMatrix4(n, makeRotationFromEuler(orientation)) = downVector }

\* C14: the first six candidates are generated for every mesh, the first of
\* them the identity, each puts one face of an axis-aligned cube down, and
\* the six put six distinct faces down
C14_SixDistinctFacesDown ==
    calls > 0 =>
        LET candidates == generateCandidateOrientations(features)
        IN  /\ Len(candidates) >= 6
            /\ candidates[1] = Euler(Angle0, Angle0, Angle0)
            /\ \A i \in 1..6 : Cardinality(facesDown(candidates[i])) = 1
            /\ Cardinality(UNION {facesDown(candidates[i]) : i \in 1..6}) = 6

\* C15: every call returns, and every result has a finite support fraction
\* in [0,1], a finite time proxy >= 0, a quality in [0,1] and a finite score
C15_FiniteResults ==
    calls > 0 =>
        /\ thrown = "none"
        /\ \A i \in 1..Len(results) :
              /\ IsFinite(results[i].supportVolume)
              /\ RGe(results[i].supportVolume, Zero)
              /\ RLe(results[i].supportVolume, One)
              /\ IsFinite(results[i].printTime)
              /\ RGe(results[i].printTime, Zero)
              /\ RGe(results[i].quality, Zero)
              /\ RLe(results[i].quality, One)
              /\ IsFinite(results[i].score)

\* the sum of the face normals of the hole candidates
RECURSIVE holeNormalSum(_)
holeNormalSum(indices) ==
    IF indices = <<>> THEN Vec(0, 0, 0)
    ELSE VAdd(faceNormal(loaded[Head(indices) + 1]), holeNormalSum(Tail(indices)))

\* C16: a functional direction carried by the feature detection result has
\* length 1 and points opposite to the average of the hole candidates' face
\* normals
C16_FunctionalDirectionIsUnit ==
    (calls > 0 /\ features.hasFunctionalDirection) =>
        LET fd == features.functionalDirection
            sum == holeNormalSum(features.holeIndices)
        IN  /\ VLengthSq(fd) = One
            /\ VCross(fd, sum) = Vec(0, 0, 0)
            /\ RLt(VDot(fd, sum), Zero)

identityEuler == Euler(Angle0, Angle0, Angle0)

\* C17: for a thin slab lying flat with no hole candidates, the first result
\* is the identity candidate or one with the same placement, its support
\* fraction is approximately 0 (at most 1/100) and its time proxy is the
\* smallest among all results
C17_FlatSlabIdentityFirst ==
    (calls > 0 /\ loaded \in Slabs /\ ~features.hasHoles) =>
        /\ makeRotationFromEuler(results[1].rotation) =
              makeRotationFromEuler(identityEuler)
        /\ RLe(results[1].supportVolume, Q(1, 100))
        /\ \A i \in 1..Len(results) :
              RLe(results[1].printTime, results[i].printTime)

\* the share of the mesh's triangles whose normal, rotated by the
\* orientation, has a downward component above 0.7
supportShare(orientation) ==
    LET m == makeRotationFromEuler(orientation)
        down == {k \in 1..Len(loaded) :
                    RGt(VDot(applyMatrix4(faceNormal(loaded[k]), m), downVector),
                        Q(7, 10))}
    IN  RDiv(I(Cardinality(down)), I(Len(loaded)))

\* the height of the bounding box of the mesh rotated by the orientation
rotatedHeight(orientation) ==
    LET m == makeRotationFromEuler(orientation)
        ys == {applyMatrix4(loaded[k].p[j], m)[2] :
                  k \in 1..Len(loaded), j \in 1..3}
        top == CHOOSE y \in ys : \A z \in ys : RLe(z, y)
        bottom == CHOOSE y \in ys : \A z \in ys : RLe(y, z)
    IN  RSub(top, bottom)

\* (1 - supportFraction) * 0.3 + (1 - timeProxy) * 0.2 + quality * 0.5
weightedSum(r) ==
    RAdd(RAdd(RMul(RSub(One, r.supportVolume), Q(3, 10)),
              RMul(RSub(One, r.printTime), Q(2, 10))),
         RMul(r.quality, Q(5, 10)))

\* the part has holes and a functional direction whose dot product with
\* the up axis rotated by the orientation exceeds 0.8
directionNearRotatedUp(orientation) ==
    /\ features.hasHoles
    /\ features.hasFunctionalDirection
    /\ RGt(VDot(features.functionalDirection,
                applyMatrix4(upVector, makeRotationFromEuler(orientation))),
           Q(8, 10))

\* C18: in every result the support fraction is the share of triangles
\* whose rotated normal points down beyond 0.7, the time proxy is the
\* rotated bounding-box height times (1 + 0.5 * support fraction), and the
\* score is the weighted sum plus 0.2 exactly when the part has holes and a
\* functional direction within 0.8 of the rotated up axis
C18_ScoreIsWeightedSum ==
    calls > 0 =>
        \A i \in 1..Len(results) :
            LET r == results[i]
            IN  /\ r.supportVolume = supportShare(r.rotation)
                /\ Len(loaded) > 0 =>
                      r.printTime =
                          RMul(rotatedHeight(r.rotation),
                               RAdd(One, RMul(Q(1, 2), r.supportVolume)))
                /\ r.score = IF directionNearRotatedUp(r.rotation)
                             THEN RAdd(weightedSum(r), Q(2, 10))
                             ELSE weightedSum(r)

\* a mesh with holes, one result with the bonus and one without
C18_Witness ==
    /\ calls > 0
    /\ features.hasHoles
    /\ \E i, j \in 1..Len(results) :
          /\ directionNearRotatedUp(results[i].rotation)
          /\ ~directionNearRotatedUp(results[j].rotation)
          /\ RGt(results[j].supportVolume, Zero)

\* the functional direction, rotated with the part by the orientation,
\* points up within the 0.8 threshold: (R f) . up > 0.8
rotatedDirectionUp(orientation) ==
    RGt(VDot(applyMatrix4(features.functionalDirection,
                          makeRotationFromEuler(orientation)),
             upVector),
        Q(8, 10))

\* C19: when a functional direction was detected, a result gets the 0.2
\* bonus and the verdict 'Holes facing upward (optimal)' exactly when the
\* functional direction rotated by the result's rotation points up within
\* the threshold
C19_BonusWhenRotatedDirectionUp ==
    (calls > 0 /\ features.hasHoles /\ features.hasFunctionalDirection) =>
        \A i \in 1..Len(results) :
            LET r == results[i]
            IN  /\ r.description.holes = "Holes facing upward (optimal)"
                      <=> rotatedDirectionUp(r.rotation)
                /\ r.score = IF rotatedDirectionUp(r.rotation)
                             THEN RAdd(weightedSum(r), Q(2, 10))
                             ELSE weightedSum(r)

\* the functional direction points along world up: its cross product with
\* up is within the epsilon 0.01 of zero and it does not point downwards
AlignedWithUp(fd) ==
    /\ RLe(VLengthSq(VCross(fd, upVector)), Q(1, 10000))
    /\ RGt(VDot(fd, upVector), Zero)

\* the candidate list has a seventh entry, it is among the results, and its
\* rotation maps the functional direction onto world up
SeventhMapsOntoUp ==
    LET candidates == generateCandidateOrientations(features)
    IN  /\ Len(candidates) = 7
        /\ Len(results) = 7
        /\ \E i \in 1..7 : results[i].rotation = candidates[7]
        /\ applyMatrix4(features.functionalDirection,
                        makeRotationFromEuler(candidates[7])) = upVector

ValidIndexList(list) ==
    /\ \A k \in 1..Len(list) : list[k] \in 0..(Len(loaded) - 1)
    /\ \A j, k \in 1..Len(list) : j # k => list[j] # list[k]

\* C22: in every feature detection result each flag is true exactly when its
\* index list is non-empty, the functional direction is present exactly when
\* hasHoles is true, and every index in the three lists is a valid triangle
\* index listed at most once
C22_FeaturesConsistent ==
    calls > 0 =>
        /\ features.hasFlatSurfaces <=> features.flatSurfaceIndices # <<>>
        /\ features.hasOverhangs <=> features.overhangIndices # <<>>
        /\ features.hasHoles <=> features.holeIndices # <<>>
        /\ features.hasFunctionalDirection <=> features.hasHoles
        /\ ValidIndexList(features.flatSurfaceIndices)
        /\ ValidIndexList(features.overhangIndices)
        /\ ValidIndexList(features.holeIndices)

\* a mesh with a flat face, an overhang and hole candidates
C22_Witness ==
    /\ calls > 0
    /\ features.hasFlatSurfaces
    /\ features.hasOverhangs
    /\ Len(features.holeIndices) >= 2

\* the quality of the part as it was loaded: half of one plus the up
\* component of the functional direction, 1/2 without one
qualityAsLoaded ==
    IF features.hasHoles /\ features.hasFunctionalDirection
    THEN RDiv(RAdd(features.functionalDirection[2], One), I(2))
    ELSE Q(1, 2)

\* C21: within one analyzeOrientation pass all results carry the same
\* quality, the one computed from the functional direction at the original
\* orientation, whatever the candidate rotation
C21_QualitySameForAllResults ==
    calls > 0 =>
        \A i \in 1..Len(results) :
            /\ results[i].quality = results[1].quality
            /\ results[i].quality = qualityAsLoaded

\* seven results of differently rotated candidates for a slanted direction
C21_Witness ==
    /\ calls > 0
    /\ Len(results) = 7
    /\ results[1].quality \notin {Zero, Q(1, 2), One}

---------------------------------------------------------------------------
(* Claims about the page, checked under SpecSession                        *)

\* C24: the volume, weight, print time and cost PrintCalculator holds belong
\* to the file in the store: after an upload they are null until a
\* calculation for the new file completes
C24_EstimateBelongsToStoredFile == estimate # 0 => estimate = modelFile

OverlayDown == Mounted # 0 => ~viewers[Mounted].isAnalyzing

\* C26: when no further file is loaded, isAnalyzing eventually becomes false
\* and stays false after every load, whichever way the load went.  Every
\* behaviour has a last upload, so this says that the overlay is eventually
\* down for good
C26_OverlayEventuallyDownForGood == <>[]OverlayDown

\* the last upload's analysis has run and applied an orientation, all timers
\* and loads of earlier instances are done, and the overlay is down
C26_Witness ==
    /\ Len(uploaded) = MaxUploads
    /\ viewers[Mounted].currentOrientation = "custom"
    /\ ~viewers[Mounted].isAnalyzing
    /\ \A v \in 1..Len(viewers) :
          /\ viewers[v].startTimers = 0
          /\ viewers[v].analysisTimers = 0
          /\ viewers[v].loading = {}

\* C27: while the start timer or the analysis timer of the file the page
\* shows is pending, isAnalyzing is true, also when timers of earlier loads
\* fire in between
C27_AnalyzingWhileTimerPending ==
    Mounted # 0 =>
        (viewers[Mounted].startTimers > 0 \/ viewers[Mounted].analysisTimers > 0
            => viewers[Mounted].isAnalyzing)

\* the analysis timer of the second file is pending after the timers set for
\* the first file have fired
C27_Witness ==
    /\ Len(uploaded) = 2
    /\ viewers[Mounted].analysisTimers > 0
    /\ \E v \in 1..(Mounted - 1) :
          /\ viewers[v].originalModelDataRef.kind = "geometry"
          /\ viewers[v].startTimers = 0
          /\ viewers[v].analysisTimers = 0

\* C28: in every state of the store an observer can see, modelFile and
\* fileName belong to the same upload
C28_FileAndNameOfSameUpload ==
    \A s \in published : s.modelFile = s.fileName

\* C29: isCalculating is true exactly while a handleCalculate call is in
\* flight, and false once the last call has settled, resolved or rejected
C29_CalculatingExactlyWhileInFlight == isCalculating <=> inflight # <<>>

\* a call awaits the volume of a file that has been replaced in the store
C29_Witness ==
    /\ isCalculating
    /\ Len(inflight) = 1
    /\ ~inflight[1].settled
    /\ inflight[1].file # modelFile

---------------------------------------------------------------------------
(* Claims about the viewer's geometry, checked under SpecViewer            *)

\* the fit check's verdict on the mesh an instance shows
shownFits(w) == meshOnBuildPlate(w.modelRef[1].geometry).canFit

\* C23: when the page flags the model as too large, the model fails the fit
\* check in the orientation the mounted viewer has applied; a model that
\* passes it there is not flagged
C23_FlaggedOnlyIfAppliedOrientationFails ==
    (scenes # <<>> /\ scenes[Len(scenes)].applyCalls > 0) =>
        (modelDimensions.isTooLarge => ~shownFits(scenes[Len(scenes)]))

\* the mesh applyOrientation makes of the file as loaded
rotatedAsLoaded(file, rotation) ==
    meshOnBuildPlate(withBoundingBox(
        geometryApplyMatrix4(Geometry(file), makeRotationFromEuler(rotation))))

\* C30: the geometry stored at load time stays as loaded, and what an
\* instance shows after applyOrientation is the chosen rotation applied to
\* the geometry as loaded, however many times an orientation was applied
C30_StoredGeometryStaysAsLoaded ==
    \A v \in 1..Len(scenes) :
        /\ scenes[v].originalModelDataRef # <<>> =>
               scenes[v].originalModelDataRef[1] = Geometry(scenes[v].file)
        /\ scenes[v].applyCalls > 0 =>
               scenes[v].modelRef[1] =
                   rotatedAsLoaded(scenes[v].file, scenes[v].rotation[1])

\* an instance has applied the same rotation, not the identity, twice
C30_Witness ==
    \E v \in 1..Len(scenes) :
        /\ scenes[v].applyCalls = 2
        /\ scenes[v].rotation[1] # identityEuler

---------------------------------------------------------------------------
(* Claims about tryToFitModelOnBuildPlate, checked under SpecFit           *)

DimensionExceeds(k) == fitBox.max[k] - fitBox.min[k] > 2 * 256

Centred == \A k \in 1..3 : fitBox.min[k] + fitBox.max[k] = 0

HalfWidth == DHalf(timesScale(2 * 256))

\* the placed box lies inside the build envelope: within the half extents
\* on X and Z, between the floor and the envelope height on Y
PlacedInsideEnvelope ==
    LET placed == placedBox(fitBox, fitResult)
    IN  /\ DGe(placed.min[1], DNeg(HalfWidth))
        /\ DLe(placed.max[1], HalfWidth)
        /\ DGe(placed.min[3], DNeg(HalfWidth))
        /\ DLe(placed.max[3], HalfWidth)
        /\ DGe(placed.min[2], DZero)
        /\ DLe(placed.max[2], timesScale(2 * 256))

\* C6: when one of the three dimensions exceeds the build volume's, the
\* result is canFit = false with both offsets zero, wherever the box is
C6_TooLargeNeverFits ==
    (fitDone /\ \E k \in 1..3 : DimensionExceeds(k)) =>
        /\ ~fitResult.canFit
        /\ fitResult.offsetX = DZero
        /\ fitResult.offsetZ = DZero

\* only the height exceeds, and the box is off centre on X
C6_Witness ==
    /\ fitDone
    /\ DimensionExceeds(2)
    /\ ~DimensionExceeds(1)
    /\ ~DimensionExceeds(3)
    /\ fitBox.min[1] > 2 * 256

\* C7: a box with every dimension strictly smaller than the build volume's
\* and centred on the origin fits, with both offsets zero
C7_CentredSmallerFits ==
    (fitDone /\ Centred /\ \A k \in 1..3 : fitBox.max[k] - fitBox.min[k] < 2 * 256) =>
        /\ fitResult.canFit
        /\ fitResult.offsetX = DZero
        /\ fitResult.offsetZ = DZero

C7_Witness ==
    /\ fitDone
    /\ Centred
    /\ fitBox.max[1] - fitBox.min[1] = 2 * 255
    /\ fitBox.max[3] - fitBox.min[3] = 2
    /\ fitResult.canFit

\* C8: when no dimension exceeds the build volume's, the re-validation
\* succeeds wherever the box is, and the box moved by (offsetX, -min.y,
\* offsetZ) lies inside the build envelope
C8_FitsWheneverDimensionsFit ==
    (fitDone /\ \A k \in 1..3 : ~DimensionExceeds(k)) =>
        /\ fitResult.canFit
        /\ PlacedInsideEnvelope

---------------------------------------------------------------------------
(* Claims about calculateVolume, checked under SpecVolume                  *)

\* the sum of the absolute values of the six coordinate products that make
\* up p1 . (p2 x p3)
absProducts(p1, p2, p3) ==
    LET a == [k \in 1..3 |-> Abs(p1[k])]
        b == [k \in 1..3 |-> Abs(p2[k])]
        c == [k \in 1..3 |-> Abs(p3[k])]
    IN  a[1] * (b[2] * c[3] + b[3] * c[2])
          + a[2] * (b[3] * c[1] + b[1] * c[3])
          + a[3] * (b[1] * c[2] + b[2] * c[1])

RECURSIVE sumAbsProducts(_, _)
sumAbsProducts(f, i) ==
    IF i > Len(f) THEN 0
    ELSE absProducts(f[i].v1, f[i].v2, f[i].v3) + sumAbsProducts(f, i + 1)

\* six times the rounding allowance of a file of N facets, in units of
\* 2^-60: N * 2^-50 times the sum of the absolute coordinate products
roundingAllowance(f) ==
    MagMulSmall(MagCarry(<<sumAbsProducts(f, 1), 0, 0, 0, 0>>, 0), Len(f) * 2^10)

\* |a - b| <= allowance, on magnitudes
MagWithin(a, b, allowance) ==
    LET diff == IF MagLess(a, b) THEN MagSub(b, a) ELSE MagSub(a, b)
    IN  ~MagLess(allowance, diff)

\* C9 as stated: for an axis-aligned cube of edge L made of 12 consistently
\* wound triangles, placed anywhere, the volume computed is L cubed
C9_CubeVolumeIsEdgeCubed ==
    (shape.kind = "cube" /\ "file" \in computed) =>
        volume["file"] = DInt(shape.edge^3)

\* C9 amended: for such a cube the volume computed is L cubed up to the
\* rounding of the floating-point sum: it differs from L cubed by at most
\* 12 * 2^-50 times a sixth of the sum of the absolute coordinate products
C9_CubeVolumeWithinRounding ==
    (shape.kind = "cube" /\ "file" \in computed) =>
        /\ ~volume["file"].neg
        /\ MagWithin(MagMulSmall(volume["file"].mag, 6),
                     DInt(6 * shape.edge^3).mag,
                     roundingAllowance(stlFile))

\* a cube away from the origin, wound inwards, whose computed volume is not
\* the double of L cubed
C9_Witness ==
    /\ shape.kind = "cube"
    /\ "file" \in computed
    /\ stlFile[1].normal = <<1, 0, 0>>
    /\ stlFile[1].v1 # <<0, 0, 0>>
    /\ volume["file"] # DInt(shape.edge^3)

\* C10 as stated: the volume computed for a closed, consistently wound mesh
\* is the volume computed for the same mesh translated and rotated
C10_VolumeUnchangedByMotion ==
    computed = {"file", "moved"} => volume["moved"] = volume["file"]

\* C10 amended: the two volumes agree up to the rounding of the two
\* floating-point sums: they differ by at most the sum of the two files'
\* allowances (N * 2^-50 times a sixth of the sum of the absolute coordinate
\* products, N the number of triangles)
C10_VolumeWithinRoundingUnderMotion ==
    computed = {"file", "moved"} =>
        MagWithin(MagMulSmall(volume["file"].mag, 6),
                  MagMulSmall(volume["moved"].mag, 6),
                  MagAdd(roundingAllowance(stlFile), roundingAllowance(movedFile)))

\* a mesh turned by the 3-4-5 angle and translated, whose two computed
\* volumes differ
C10_Witness ==
    /\ computed = {"file", "moved"}
    /\ \E i \in 1..Len(movedFile) :
          Cardinality({k \in 1..3 : Abs(movedFile[i].normal[k]) \in {3, 4}}) = 2
    /\ movedFile[1].v1 # stlFile[1].v1
    /\ volume["moved"] # volume["file"]

---------------------------------------------------------------------------
(* Claims about calculateVolume's promise, checked under SpecUpload        *)

Resolved(w) == promise[w].state = "resolved"

\* the signed tetrahedron volumes v1 . (v2 x v3) / 6 of the facets from the
\* i-th on, added to sum one after the other
RECURSIVE signedTotal(_, _, _)
signedTotal(facets, i, sum) ==
    IF i > Len(facets) THEN sum
    ELSE signedTotal(facets, i + 1,
             DAdd(sum, DDivSmall(DInt(dot(facets[i].v1,
                                          crossVectors(facets[i].v2, facets[i].v3))), 6)))

\* the triangles of the meshes from the k-th on, where the world matrix
\* puts them
RECURSIVE allTriangles(_, _)
allTriangles(meshes, k) ==
    IF k > Len(meshes) THEN <<>>
    ELSE applyMatrixWorld(meshes[k]) \o allTriangles(meshes, k + 1)

\* the absolute values of the meshes' own totals, from the k-th mesh on,
\* added to sum one after the other
RECURSIVE perMeshTotal(_, _, _)
perMeshTotal(meshes, k, sum) ==
    IF k > Len(meshes) THEN sum
    ELSE perMeshTotal(meshes, k + 1,
             DAdd(sum, DAbs(signedTotal(applyMatrixWorld(meshes[k]), 1, DZero))))

\* C11 as stated: whenever the promise resolves, for an STL mesh or a 3MF
\* object of one or several meshes, its value is the absolute value of the
\* single total of the signed tetrahedron volumes of all triangles of the
\* input; it is not negative, and the upload with every winding reversed
\* resolves with the same value
C11_AbsoluteValueOfSingleTotal ==
    /\ Resolved("upload") =>
          /\ ~promise["upload"].value.neg
          /\ promise["upload"].value =
                DAbs(signedTotal(allTriangles(upload.meshes, 1), 1, DZero))
    /\ (Resolved("upload") /\ Resolved("reversed")) =>
          promise["reversed"].value = promise["upload"].value

\* C11 amended: for an STL mesh the value is the absolute value of the
\* single total over all triangles; for a 3MF object it is the sum, over
\* the object's meshes, of the absolute value of each mesh's own total; it
\* is not negative, and reversing every winding does not change it
C11_AbsoluteValuePerMesh ==
    /\ Resolved("upload") =>
          /\ ~promise["upload"].value.neg
          /\ upload.format = "stl" =>
                promise["upload"].value =
                    DAbs(signedTotal(allTriangles(upload.meshes, 1), 1, DZero))
          /\ upload.format = "3mf" =>
                promise["upload"].value = perMeshTotal(upload.meshes, 1, DZero)
    /\ (Resolved("upload") /\ Resolved("reversed")) =>
          promise["reversed"].value = promise["upload"].value

\* a 3MF object of two meshes, one wound outwards and one inwards, whose
\* value is not the absolute value of the single total
C11_Witness ==
    /\ upload.format = "3mf"
    /\ Len(upload.meshes) = 2
    /\ Resolved("upload")
    /\ Resolved("reversed")
    /\ promise["upload"].value #
          DAbs(signedTotal(allTriangles(upload.meshes, 1), 1, DZero))

LacksPosition(file) == \E k \in 1..Len(file.meshes) : ~file.meshes[k].hasPosition

\* C12: when a mesh handed to the volume computation lacks position data
\* (the STL geometry, or a mesh inside a 3MF object), the promise never
\* resolves to a number
C12_RejectsWithoutPosition ==
    /\ LacksPosition(upload) => ~Resolved("upload")
    /\ LacksPosition(ReverseWinding(upload)) => ~Resolved("reversed")

---------------------------------------------------------------------------
(* Claims about malformed geometries, checked under SpecMalformed          *)

\* C13: when the geometry lacks a position or a normal attribute, a call of
\* analyzeOrientation ends with a MalformedMesh error thrown to the caller:
\* no default feature detection result is scored and no list is returned
C13_MalformedMeshReachesCaller ==
    (calls > 0 /\ geometry.attributes # {"position", "normal"}) =>
        /\ thrown = "MalformedMesh"
        /\ results = <<>>

===========================================================================
